---- MODULE Spec2Model ----
(***************************************************************************)
(* Hanu-Planner: the timetable generator (services/TimetableGenerator.js)  *)
(* and the result cache around it (server.js, services/CacheManager.js,    *)
(* models/Database.js).                                                    *)
(*                                                                         *)
(* A time "HH:MM" is the pair <<hour, minute>>.  The code compares times   *)
(* as strings; for two zero-padded fields that is the lexicographic order  *)
(* of the pair, which StrLess computes.  Durations are computed the way    *)
(* calculateDuration does, from hour * 60 + minute.                        *)
(***************************************************************************)
EXTENDS Integers, Sequences, FiniteSets, TLC

VARIABLES
  courses,        \* rows of getCoursesByUser: course id -> priority
  sessions,       \* rows of getSessionsByUser, in the order the query returns them
  constraints,    \* rows of getConstraintsByUser (the active ones)
  pc,             \* position of the generator: "idle", "placing", "done", "optimized", "threw"
  sortedSessions, \* generateTimetable's sortedSessions
  idx,            \* index of the next session of the for-loop
  schedule,       \* generateTimetable's schedule: day -> [sessions, totalHours]
  conflicts,      \* generateTimetable's conflicts
  result,         \* the value generateTimetable / optimizeTimetable returned
  prevResult,     \* the value an earlier call of generateTimetable returned
  currentTimetable, \* the object handed to optimizeTimetable, as it is after the call
  dbVer,          \* server: number of writes to courses, sessions, constraints so far
  doneVer,        \* server: dbVer as of the latest write whose request was answered
  memoryCache,    \* server: CacheManager.memoryCache, a Map in insertion order
  dbCache,        \* server: table cache, key -> row
  getReq,         \* server: the GET /api/timetable/:userId in flight, or the last one
  regenReq,       \* server: the POST /api/timetable/regenerate/:userId
  mutReq,         \* server: the request that writes a course, session or constraint
  now,            \* cache: the clock, in ticks
  stored,         \* cache: stored[v] is the expiry time given to value v by set
  lastGet,        \* cache: what the latest get(key) returned, and when
  fills,          \* cache: number of other keys set so far
  timetable,      \* entries: the rows of table timetable
  nextId,         \* entries: the id AUTOINCREMENT gives next
  entryCache,     \* entries: TimetableCache.cache, key -> cached list
  entryVer,       \* entries: number of writes to the table so far
  entryDone,      \* entries: entryVer as of the latest write whose request was answered
  entryGet,       \* entries: the GET in flight, or the last one
  entryMut,       \* entries: the POST, PUT or DELETE in flight, or the last one
  chatRows,       \* chatbot: the rows its handlers inserted into sessions and constraints
  chatReplies,    \* chatbot: the replies of its handlers, in order
  enhance         \* entries: the POST /timetable/enhance, its body and its response

genVars == <<courses, sessions, constraints, pc, sortedSessions, idx,
             schedule, conflicts, result, prevResult, currentTimetable>>

srvVars == <<dbVer, doneVer, memoryCache, dbCache, getReq, regenReq, mutReq>>

cacheVars == <<now, stored, lastGet, fills>>

entryVars == <<timetable, nextId, entryCache, entryVer, entryDone, entryGet, entryMut>>

chatVars == <<chatRows, chatReplies>>

\* What the generator leaves alone
otherVars == <<srvVars, cacheVars, entryVars, chatVars, enhance>>

vars == <<genVars, srvVars, cacheVars, entryVars, chatVars, enhance>>

-----------------------------------------------------------------------------
(* Bounds of the model *)

MaxSessions == 2
MaxConstraints == 1
MaxWeekSessions == 6
MaxCalls == 2
MaxSortLen == 2
MaxSets == 2
MaxTime == 4
MaxEntryCalls == 2
MaxBatch == 2
MaxId == 3
MaxChat == 2
MaxEntries == 3

(* SQL NULL in the nullable columns of table constraints *)
NoTime == <<>>
NoDay == 7

NoResult == [none |-> TRUE]

-----------------------------------------------------------------------------
(* Time arithmetic *)

Minutes(t) == t[1] * 60 + t[2]

\* JavaScript's a < b on two "HH:MM" strings; with null on either side the
\* string operand converts to NaN and the comparison is false.
StrLess(a, b) ==
  IF a = NoTime \/ b = NoTime THEN FALSE
  ELSE a[1] < b[1] \/ (a[1] = b[1] /\ a[2] < b[2])

localeCompare(a, b) == IF StrLess(a, b) THEN -1 ELSE IF StrLess(b, a) THEN 1 ELSE 0

\* Mutants of timesOverlap: one that only sees an interval starting strictly
\* inside the other, one that takes the intervals as closed.
timesOverlapStartInside(start1, end1, start2, end2) ==
  StrLess(start1, start2) /\ StrLess(start2, end1)

timesOverlapClosed(start1, end1, start2, end2) ==
  ~StrLess(end2, start1) /\ ~StrLess(end1, start2)

timesOverlap(start1, end1, start2, end2) ==
  StrLess(start1, end2) /\ StrLess(start2, end1)

calculateDuration(startTime, endTime) == Minutes(endTime) - Minutes(startTime)

\* Mutant of addMinutes: no limit at 21:00.
addMinutesNoLimit(time, minutes) ==
  LET totalMinutes == time[1] * 60 + time[2] + minutes
  IN <<totalMinutes \div 60, totalMinutes % 60>>

addMinutes(time, minutes) ==
  LET totalMinutes == time[1] * 60 + time[2] + minutes
  IN IF totalMinutes >= 21 * 60 THEN NoTime
     ELSE <<totalMinutes \div 60, totalMinutes % 60>>

\* Mutant of timeSlots: the hours start at 9.
timeSlotsFromNine == [i \in 1..24 |-> <<9 + ((i - 1) \div 2), 30 * ((i - 1) % 2)>>]

\* Mutant of timeSlots: a slot every quarter of an hour.
timeSlotsQuarterHours == [i \in 1..52 |-> <<8 + ((i - 1) \div 4), 15 * ((i - 1) % 4)>>]

\* generateTimeSlots: hour 8..20, minute 0 and 30
timeSlots == [i \in 1..26 |-> <<8 + ((i - 1) \div 2), 30 * ((i - 1) % 2)>>]

-----------------------------------------------------------------------------
(* Schedule assembler *)

dayNames == <<"Sunday", "Monday", "Tuesday", "Wednesday", "Thursday", "Friday", "Saturday">>

AllDays == 0..6

createEmptySchedule ==
  [day \in AllDays |-> [dayName |-> dayNames[day + 1], sessions |-> <<>>, totalHours |-> 0]]

\* One step of a stable sort by start_time: x goes after every element that
\* does not compare greater than it.
RECURSIVE InsertByStart(_, _)
InsertByStart(sorted, x) ==
  IF sorted = <<>> THEN <<x>>
  ELSE LET last == sorted[Len(sorted)]
       IN IF localeCompare(last.start_time, x.start_time) > 0
          THEN Append(InsertByStart(SubSeq(sorted, 1, Len(sorted) - 1), x), last)
          ELSE Append(sorted, x)

\* Array.prototype.sort((a, b) => a.start_time.localeCompare(b.start_time)), stable
RECURSIVE SortByStart(_)
SortByStart(s) ==
  IF s = <<>> THEN <<>>
  ELSE InsertByStart(SortByStart(SubSeq(s, 1, Len(s) - 1)), s[Len(s)])

\* Mutant of placeSession: the new placement takes the place of the day's list.
placeSessionReplacesDay(sched, session, placement) ==
  LET duration == calculateDuration(placement.startTime, placement.endTime)
      entry == [id |-> session.id,
                course_id |-> session.course_id,
                type |-> session.type,
                day_of_week |-> session.day_of_week,
                start_time |-> placement.startTime,
                end_time |-> placement.endTime,
                duration |-> duration,
                isAlternative |-> placement.isAlternative,
                isDifferentDay |-> placement.isDifferentDay]
      daySchedule == sched[placement.dayOfWeek]
  IN [sched EXCEPT ![placement.dayOfWeek] =
        [dayName |-> daySchedule.dayName,
         sessions |-> <<entry>>,
         totalHours |-> duration]]

\* Mutant of placeSession: the day's list is not sorted after the push.
placeSessionNoSort(sched, session, placement) ==
  LET duration == calculateDuration(placement.startTime, placement.endTime)
      entry == [id |-> session.id,
                course_id |-> session.course_id,
                type |-> session.type,
                day_of_week |-> session.day_of_week,
                start_time |-> placement.startTime,
                end_time |-> placement.endTime,
                duration |-> duration,
                isAlternative |-> placement.isAlternative,
                isDifferentDay |-> placement.isDifferentDay]
      daySchedule == sched[placement.dayOfWeek]
  IN [sched EXCEPT ![placement.dayOfWeek] =
        [dayName |-> daySchedule.dayName,
         sessions |-> Append(daySchedule.sessions, entry),
         totalHours |-> daySchedule.totalHours + duration]]

\* totalHours is kept in minutes (the code adds duration / 60 hours).
placeSession(sched, session, placement) ==
  LET duration == calculateDuration(placement.startTime, placement.endTime)
      entry == [id |-> session.id,
                course_id |-> session.course_id,
                type |-> session.type,
                day_of_week |-> session.day_of_week,
                start_time |-> placement.startTime,
                end_time |-> placement.endTime,
                duration |-> duration,
                isAlternative |-> placement.isAlternative,
                isDifferentDay |-> placement.isDifferentDay]
      daySchedule == sched[placement.dayOfWeek]
  IN [sched EXCEPT ![placement.dayOfWeek] =
        [dayName |-> daySchedule.dayName,
         sessions |-> SortByStart(Append(daySchedule.sessions, entry)),
         totalHours |-> daySchedule.totalHours + duration]]

-----------------------------------------------------------------------------
(* Slot search *)

\* Mutant of isTimeSlotAvailable: a constraint without a day applies to no day.
isTimeSlotAvailableDayOnly(dayOfWeek, startTime, endTime, sched, cons) ==
  /\ \A i \in 1..Len(sched[dayOfWeek].sessions) :
        ~timesOverlap(startTime, endTime,
                      sched[dayOfWeek].sessions[i].start_time,
                      sched[dayOfWeek].sessions[i].end_time)
  /\ \A i \in 1..Len(cons) :
        ~(/\ cons[i].day_of_week = dayOfWeek
          /\ cons[i].type = "unavailable"
          /\ timesOverlap(startTime, endTime, cons[i].start_time, cons[i].end_time))

\* Mutant of isTimeSlotAvailable: nothing is available on Sunday and Saturday.
isTimeSlotAvailableWeekdaysOnly(dayOfWeek, startTime, endTime, sched, cons) ==
  /\ dayOfWeek \in 1..5
  /\ \A i \in 1..Len(sched[dayOfWeek].sessions) :
        ~timesOverlap(startTime, endTime,
                      sched[dayOfWeek].sessions[i].start_time,
                      sched[dayOfWeek].sessions[i].end_time)
  /\ \A i \in 1..Len(cons) :
        ~(/\ (cons[i].day_of_week = NoDay \/ cons[i].day_of_week = dayOfWeek)
          /\ cons[i].type = "unavailable"
          /\ timesOverlap(startTime, endTime, cons[i].start_time, cons[i].end_time))

\* Mutant of isTimeSlotAvailable: a constraint of any type blocks its window.
isTimeSlotAvailableAnyType(dayOfWeek, startTime, endTime, sched, cons) ==
  /\ \A i \in 1..Len(sched[dayOfWeek].sessions) :
        ~timesOverlap(startTime, endTime,
                      sched[dayOfWeek].sessions[i].start_time,
                      sched[dayOfWeek].sessions[i].end_time)
  /\ \A i \in 1..Len(cons) :
        ~(/\ (cons[i].day_of_week = NoDay \/ cons[i].day_of_week = dayOfWeek)
          /\ timesOverlap(startTime, endTime, cons[i].start_time, cons[i].end_time))

isTimeSlotAvailable(dayOfWeek, startTime, endTime, sched, cons) ==
  /\ \A i \in 1..Len(sched[dayOfWeek].sessions) :
        ~timesOverlap(startTime, endTime,
                      sched[dayOfWeek].sessions[i].start_time,
                      sched[dayOfWeek].sessions[i].end_time)
  /\ \A i \in 1..Len(cons) :
        ~(/\ (cons[i].day_of_week = NoDay \/ cons[i].day_of_week = dayOfWeek)
          /\ cons[i].type = "unavailable"
          /\ timesOverlap(startTime, endTime, cons[i].start_time, cons[i].end_time))

\* Mutant of findAlternativeSlots: every candidate is one hour long.
findAlternativeSlotsOneHour(session, dayOfWeek, sched, cons) ==
  LET candidates == [i \in 1..(Len(timeSlots) - 1) |->
                       [startTime |-> timeSlots[i],
                        endTime |-> addMinutes(timeSlots[i], 60)]]
      Free(a) == /\ a.endTime # NoTime
                 /\ isTimeSlotAvailable(dayOfWeek, a.startTime, a.endTime, sched, cons)
  IN SelectSeq(candidates, Free)

findAlternativeSlots(session, dayOfWeek, sched, cons) ==
  LET duration == calculateDuration(session.start_time, session.end_time)
      candidates == [i \in 1..(Len(timeSlots) - 1) |->
                       [startTime |-> timeSlots[i],
                        endTime |-> addMinutes(timeSlots[i], duration)]]
      Free(a) == /\ a.endTime # NoTime
                 /\ isTimeSlotAvailable(dayOfWeek, a.startTime, a.endTime, sched, cons)
  IN SelectSeq(candidates, Free)

Min(S) == CHOOSE x \in S : \A y \in S : x <= y
Max(S) == CHOOSE x \in S : \A y \in S : x >= y

\* Mutant of findBestPlacement: the other days are all seven, Sunday first.
findBestPlacementAllWeek(session, sched, cons) ==
  LET dayOfWeek == session.day_of_week
      alternatives == findAlternativeSlots(session, dayOfWeek, sched, cons)
      otherDays == {day \in AllDays : /\ day # dayOfWeek
                                      /\ findAlternativeSlots(session, day, sched, cons) # <<>>}
  IN IF isTimeSlotAvailable(dayOfWeek, session.start_time, session.end_time, sched, cons)
     THEN [success |-> TRUE, dayOfWeek |-> dayOfWeek,
           startTime |-> session.start_time, endTime |-> session.end_time,
           isAlternative |-> FALSE, isDifferentDay |-> FALSE]
     ELSE IF alternatives # <<>>
     THEN [success |-> TRUE, dayOfWeek |-> dayOfWeek,
           startTime |-> alternatives[1].startTime, endTime |-> alternatives[1].endTime,
           isAlternative |-> TRUE, isDifferentDay |-> FALSE]
     ELSE IF otherDays # {}
     THEN LET day == Min(otherDays)
              dayAlternatives == findAlternativeSlots(session, day, sched, cons)
          IN [success |-> TRUE, dayOfWeek |-> day,
              startTime |-> dayAlternatives[1].startTime,
              endTime |-> dayAlternatives[1].endTime,
              isAlternative |-> FALSE, isDifferentDay |-> TRUE]
     ELSE [success |-> FALSE, reason |-> "No available time slots found"]

\* Mutants of findBestPlacement: the candidates of the day are tried before
\* the requested slot; the last candidate of the day is taken.
findBestPlacementCandidatesFirst(session, sched, cons) ==
  LET dayOfWeek == session.day_of_week
      alternatives == findAlternativeSlots(session, dayOfWeek, sched, cons)
      otherDays == {day \in 1..5 : /\ day # dayOfWeek
                                   /\ findAlternativeSlots(session, day, sched, cons) # <<>>}
  IN IF alternatives # <<>>
     THEN [success |-> TRUE, dayOfWeek |-> dayOfWeek,
           startTime |-> alternatives[1].startTime, endTime |-> alternatives[1].endTime,
           isAlternative |-> TRUE, isDifferentDay |-> FALSE]
     ELSE IF isTimeSlotAvailable(dayOfWeek, session.start_time, session.end_time, sched, cons)
     THEN [success |-> TRUE, dayOfWeek |-> dayOfWeek,
           startTime |-> session.start_time, endTime |-> session.end_time,
           isAlternative |-> FALSE, isDifferentDay |-> FALSE]
     ELSE IF otherDays # {}
     THEN LET day == Min(otherDays)
              dayAlternatives == findAlternativeSlots(session, day, sched, cons)
          IN [success |-> TRUE, dayOfWeek |-> day,
              startTime |-> dayAlternatives[1].startTime,
              endTime |-> dayAlternatives[1].endTime,
              isAlternative |-> FALSE, isDifferentDay |-> TRUE]
     ELSE [success |-> FALSE, reason |-> "No available time slots found"]

findBestPlacementLastCandidate(session, sched, cons) ==
  LET dayOfWeek == session.day_of_week
      alternatives == findAlternativeSlots(session, dayOfWeek, sched, cons)
      otherDays == {day \in 1..5 : /\ day # dayOfWeek
                                   /\ findAlternativeSlots(session, day, sched, cons) # <<>>}
  IN IF isTimeSlotAvailable(dayOfWeek, session.start_time, session.end_time, sched, cons)
     THEN [success |-> TRUE, dayOfWeek |-> dayOfWeek,
           startTime |-> session.start_time, endTime |-> session.end_time,
           isAlternative |-> FALSE, isDifferentDay |-> FALSE]
     ELSE IF alternatives # <<>>
     THEN [success |-> TRUE, dayOfWeek |-> dayOfWeek,
           startTime |-> alternatives[Len(alternatives)].startTime,
           endTime |-> alternatives[Len(alternatives)].endTime,
           isAlternative |-> TRUE, isDifferentDay |-> FALSE]
     ELSE IF otherDays # {}
     THEN LET day == Min(otherDays)
              dayAlternatives == findAlternativeSlots(session, day, sched, cons)
          IN [success |-> TRUE, dayOfWeek |-> day,
              startTime |-> dayAlternatives[1].startTime,
              endTime |-> dayAlternatives[1].endTime,
              isAlternative |-> FALSE, isDifferentDay |-> TRUE]
     ELSE [success |-> FALSE, reason |-> "No available time slots found"]

findBestPlacement(session, sched, cons) ==
  LET dayOfWeek == session.day_of_week
      alternatives == findAlternativeSlots(session, dayOfWeek, sched, cons)
      otherDays == {day \in 1..5 : /\ day # dayOfWeek
                                   /\ findAlternativeSlots(session, day, sched, cons) # <<>>}
  IN IF isTimeSlotAvailable(dayOfWeek, session.start_time, session.end_time, sched, cons)
     THEN [success |-> TRUE, dayOfWeek |-> dayOfWeek,
           startTime |-> session.start_time, endTime |-> session.end_time,
           isAlternative |-> FALSE, isDifferentDay |-> FALSE]
     ELSE IF alternatives # <<>>
     THEN [success |-> TRUE, dayOfWeek |-> dayOfWeek,
           startTime |-> alternatives[1].startTime, endTime |-> alternatives[1].endTime,
           isAlternative |-> TRUE, isDifferentDay |-> FALSE]
     ELSE IF otherDays # {}
     THEN LET day == Min(otherDays)
              dayAlternatives == findAlternativeSlots(session, day, sched, cons)
          IN [success |-> TRUE, dayOfWeek |-> day,
              startTime |-> dayAlternatives[1].startTime,
              endTime |-> dayAlternatives[1].endTime,
              isAlternative |-> FALSE, isDifferentDay |-> TRUE]
     ELSE [success |-> FALSE, reason |-> "No available time slots found"]

\* The number of (day, start) candidates the loops of findAlternativeSlots go
\* through within one call of findBestPlacement: none when the requested slot
\* is available, one scan of the requested day otherwise, and one scan for
\* each other day of 1..5 up to the first that has an alternative.
candidatesExamined(session, sched, cons) ==
  LET perScan == Len(timeSlots) - 1
      dayOfWeek == session.day_of_week
      others == {day \in 1..5 : day # dayOfWeek}
      hits == {day \in others : findAlternativeSlots(session, day, sched, cons) # <<>>}
      scanned == IF hits = {} THEN others ELSE {day \in others : day <= Min(hits)}
  IN IF isTimeSlotAvailable(dayOfWeek, session.start_time, session.end_time, sched, cons)
     THEN 0
     ELSE IF findAlternativeSlots(session, dayOfWeek, sched, cons) # <<>>
     THEN perScan
     ELSE perScan * (1 + Cardinality(scanned))

-----------------------------------------------------------------------------
(* Session prioritizer *)

typeOrder(type) ==
  CASE type = "lab" -> 1
    [] type = "tutorial" -> 2
    [] type = "lecture" -> 3
    [] type = "seminar" -> 4
    [] OTHER -> 5

\* Mutant of comparePriority: the duration is not looked at.
comparePriorityNoDuration(a, b, crs) ==
  IF crs[a.course_id] # crs[b.course_id]
  THEN crs[a.course_id] - crs[b.course_id]
  ELSE typeOrder(a.type) - typeOrder(b.type)

\* The comparator handed to sessions.sort in prioritizeSessions
comparePriority(a, b, crs) ==
  IF crs[a.course_id] # crs[b.course_id]
  THEN crs[a.course_id] - crs[b.course_id]
  ELSE IF typeOrder(a.type) # typeOrder(b.type)
  THEN typeOrder(a.type) - typeOrder(b.type)
  ELSE calculateDuration(b.start_time, b.end_time)
       - calculateDuration(a.start_time, a.end_time)

RECURSIVE InsertByPriority(_, _, _)
InsertByPriority(sorted, x, crs) ==
  IF sorted = <<>> THEN <<x>>
  ELSE LET last == sorted[Len(sorted)]
       IN IF comparePriority(last, x, crs) > 0
          THEN Append(InsertByPriority(SubSeq(sorted, 1, Len(sorted) - 1), x, crs), last)
          ELSE Append(sorted, x)

\* Mutant of prioritizeSessions: the rows stay in the order of the query.
prioritizeSessionsQueryOrder(sess, crs) == sess

\* Array.prototype.sort is stable: equal keys keep the input order.
RECURSIVE prioritizeSessions(_, _)
prioritizeSessions(sess, crs) ==
  IF sess = <<>> THEN <<>>
  ELSE InsertByPriority(prioritizeSessions(SubSeq(sess, 1, Len(sess) - 1), crs),
                        sess[Len(sess)], crs)

\* The comparator throws a TypeError: courseMap.get gives undefined for a
\* course that is not among the courses, and calculateDuration calls split on
\* a missing time when priority and type tie.
CompareThrows(a, b, crs) ==
  \/ a.course_id \notin DOMAIN crs
  \/ b.course_id \notin DOMAIN crs
  \/ /\ crs[a.course_id] = crs[b.course_id]
     /\ typeOrder(a.type) = typeOrder(b.type)
     /\ NoTime \in {a.start_time, a.end_time, b.start_time, b.end_time}

\* Some comparison of the sort throws.  Whatever pairs the engine compares,
\* a record of an unknown course is compared once there are two records, and
\* a record with a missing time that gets through the sort throws in the
\* loop, so the outcome of generateTimetable does not depend on the pairs.
RECURSIVE InsertThrows(_, _, _)
InsertThrows(sorted, x, crs) ==
  IF sorted = <<>> THEN FALSE
  ELSE LET last == sorted[Len(sorted)]
       IN \/ CompareThrows(last, x, crs)
          \/ /\ comparePriority(last, x, crs) > 0
             /\ InsertThrows(SubSeq(sorted, 1, Len(sorted) - 1), x, crs)

RECURSIVE SortThrows(_, _)
SortThrows(sess, crs) ==
  IF Len(sess) <= 1 THEN FALSE
  ELSE LET front == SubSeq(sess, 1, Len(sess) - 1)
       IN \/ SortThrows(front, crs)
          \/ InsertThrows(prioritizeSessions(front, crs), sess[Len(sess)], crs)

\* The loop body throws a TypeError: schedule[undefined].sessions in
\* isTimeSlotAvailable for a missing day; for a missing time every comparison
\* of timesOverlap is false, the requested slot counts as available and
\* placeSession calls calculateDuration on it.
PlaceThrows(session) ==
  \/ session.day_of_week = NoDay
  \/ session.start_time = NoTime
  \/ session.end_time = NoTime

-----------------------------------------------------------------------------
(* Suggestions and score *)

RECURSIVE SumSeq(_)
SumSeq(s) == IF s = <<>> THEN 0 ELSE s[1] + SumSeq(Tail(s))

RECURSIVE Flatten(_)
Flatten(ss) == IF ss = <<>> THEN <<>> ELSE ss[1] \o Flatten(Tail(ss))

findGaps(daySessions) ==
  [i \in 1..(Len(daySessions) - 1) |->
     calculateDuration(daySessions[i].end_time, daySessions[i + 1].start_time)]

dailyHours(sched) == {sched[day].totalHours : day \in AllDays}

Suggestion(rule, day, n) == [rule |-> rule, day |-> day, n |-> n]

\* Mutant of generateSuggestions: nothing is said about conflicts.
generateSuggestionsNoConflictRule(sched, confl, cons) ==
  LET maxHours == Max(dailyHours(sched))
      minHours == Min(dailyHours(sched))
      balance == IF maxHours - minHours > 3 * 60
                 THEN <<Suggestion("balance", NoDay, 0)>> ELSE <<>>
      gapsOn(day) ==
        IF /\ Len(sched[day].sessions) > 1
           /\ \E i \in 1..(Len(sched[day].sessions) - 1) :
                 findGaps(sched[day].sessions)[i] > 120
        THEN <<Suggestion("gaps", day, 0)>> ELSE <<>>
      conflictRule == <<>>
      consecutiveCount(day) ==
        Cardinality({i \in 1..(Len(sched[day].sessions) - 1) :
                       sched[day].sessions[i].end_time = sched[day].sessions[i + 1].start_time})
      breaksOn(day) == IF consecutiveCount(day) > 2
                       THEN <<Suggestion("breaks", day, 0)>> ELSE <<>>
      suggestions == balance
                     \o Flatten([d \in 1..7 |-> gapsOn(d - 1)])
                     \o conflictRule
                     \o Flatten([d \in 1..7 |-> breaksOn(d - 1)])
  IN IF Len(suggestions) > 0 THEN suggestions
     ELSE <<Suggestion("optimized", NoDay, 0)>>

\* The texts are kept as [rule, day, n]: 'balance', 'gaps' on day, 'conflicts'
\* with their number, 'breaks' on day, 'optimized'.  Hours are in minutes.
generateSuggestions(sched, confl, cons) ==
  LET maxHours == Max(dailyHours(sched))
      minHours == Min(dailyHours(sched))
      balance == IF maxHours - minHours > 3 * 60
                 THEN <<Suggestion("balance", NoDay, 0)>> ELSE <<>>
      gapsOn(day) ==
        IF /\ Len(sched[day].sessions) > 1
           /\ \E i \in 1..(Len(sched[day].sessions) - 1) :
                 findGaps(sched[day].sessions)[i] > 120
        THEN <<Suggestion("gaps", day, 0)>> ELSE <<>>
      conflictRule == IF Len(confl) > 0
                      THEN <<Suggestion("conflicts", NoDay, Len(confl))>> ELSE <<>>
      consecutiveCount(day) ==
        Cardinality({i \in 1..(Len(sched[day].sessions) - 1) :
                       sched[day].sessions[i].end_time = sched[day].sessions[i + 1].start_time})
      breaksOn(day) == IF consecutiveCount(day) > 2
                       THEN <<Suggestion("breaks", day, 0)>> ELSE <<>>
      suggestions == balance
                     \o Flatten([d \in 1..7 |-> gapsOn(d - 1)])
                     \o conflictRule
                     \o Flatten([d \in 1..7 |-> breaksOn(d - 1)])
  IN IF Len(suggestions) > 0 THEN suggestions
     ELSE <<Suggestion("optimized", NoDay, 0)>>

\* Scores are kept in twelfths of a point: the imbalance term is 5 points per
\* hour, that is one twelfth of a point per minute of totalHours.
ScoreUnit == 12

\* Mutant of clampScore: no clamping.
clampScoreNone(score) == score

clampScore(score) == Max({0, Min({100 * ScoreUnit, score})})

\* Mutant of calculateScore: a gap above 180 minutes costs 10 points, not 15.
calculateScoreOneGapPenalty(sched, confl, cons) ==
  LET imbalance == Max(dailyHours(sched)) - Min(dailyHours(sched))
      gapPenalty(gap) == IF gap > 180 THEN 10 * ScoreUnit
                         ELSE IF gap > 120 THEN 5 * ScoreUnit ELSE 0
      dayGaps(day) ==
        IF Len(sched[day].sessions) > 1
        THEN SumSeq([i \in 1..(Len(sched[day].sessions) - 1) |->
                       gapPenalty(findGaps(sched[day].sessions)[i])])
        ELSE 0
      dayBonus(day) ==
        2 * ScoreUnit * Cardinality({i \in 1..Len(sched[day].sessions) :
                                       /\ sched[day].sessions[i].start_time[1] >= 9
                                       /\ sched[day].sessions[i].start_time[1] <= 17})
      score == 100 * ScoreUnit
               - Len(confl) * 20 * ScoreUnit
               - imbalance
               - SumSeq([d \in 1..7 |-> dayGaps(d - 1)])
               + SumSeq([d \in 1..7 |-> dayBonus(d - 1)])
  IN clampScore(score)

calculateScore(sched, confl, cons) ==
  LET imbalance == Max(dailyHours(sched)) - Min(dailyHours(sched))
      gapPenalty(gap) == (IF gap > 120 THEN 5 * ScoreUnit ELSE 0)
                         + (IF gap > 180 THEN 10 * ScoreUnit ELSE 0)
      dayGaps(day) ==
        IF Len(sched[day].sessions) > 1
        THEN SumSeq([i \in 1..(Len(sched[day].sessions) - 1) |->
                       gapPenalty(findGaps(sched[day].sessions)[i])])
        ELSE 0
      dayBonus(day) ==
        2 * ScoreUnit * Cardinality({i \in 1..Len(sched[day].sessions) :
                                       /\ sched[day].sessions[i].start_time[1] >= 9
                                       /\ sched[day].sessions[i].start_time[1] <= 17})
      score == 100 * ScoreUnit
               - Len(confl) * 20 * ScoreUnit
               - imbalance
               - SumSeq([d \in 1..7 |-> dayGaps(d - 1)])
               + SumSeq([d \in 1..7 |-> dayBonus(d - 1)])
  IN clampScore(score)

\* JSON.parse(JSON.stringify(schedule)) followed by the per-day sort
\* Math.round(x * 10) / 10 of minutes / (60 * days) hours, in tenths of an hour
RoundTenths(minutes, days) == (2 * 10 * minutes + 60 * days) \div (2 * 60 * days)

CountType(sched, type) ==
  Cardinality({e \in UNION {{<<day, i>> : i \in 1..Len(sched[day].sessions)} :
                              day \in AllDays} :
                 sched[e[1]].sessions[e[2]].type = type})

\* Mutant of calculateStats: the lists of Sunday and Saturday are not counted.
calculateStatsWeekdaysOnly(sched) ==
  LET workingDays == Cardinality({day \in 1..5 : sched[day].sessions # <<>>})
      minutes == SumSeq([i \in 1..5 |-> sched[i].totalHours])
      types == UNION {{sched[day].sessions[i].type :
                         i \in 1..Len(sched[day].sessions)} : day \in 1..5}
  IN [totalSessions |-> SumSeq([i \in 1..5 |-> Len(sched[i].sessions)]),
      totalHours |-> RoundTenths(minutes, 1),
      averageHoursPerDay |-> IF workingDays > 0
                             THEN RoundTenths(minutes, workingDays) ELSE 0,
      workingDays |-> workingDays,
      sessionsByType |-> [t \in types |-> CountType(sched, t)],
      sessionsByDay |-> [i \in 1..7 |-> Len(sched[i - 1].sessions)]]

\* totalHours and averageHoursPerDay are in tenths of an hour; sessionsByDay
\* is indexed like dayNames, sessionsByType has the types that occur.
calculateStats(sched) ==
  LET workingDays == Cardinality({day \in AllDays : sched[day].sessions # <<>>})
      minutes == SumSeq([i \in 1..7 |-> sched[i - 1].totalHours])
      types == UNION {{sched[day].sessions[i].type :
                         i \in 1..Len(sched[day].sessions)} : day \in AllDays}
  IN [totalSessions |-> SumSeq([i \in 1..7 |-> Len(sched[i - 1].sessions)]),
      totalHours |-> RoundTenths(minutes, 1),
      averageHoursPerDay |-> IF workingDays > 0
                             THEN RoundTenths(minutes, workingDays) ELSE 0,
      workingDays |-> workingDays,
      sessionsByType |-> [t \in types |-> CountType(sched, t)],
      sessionsByDay |-> [i \in 1..7 |-> Len(sched[i - 1].sessions)]]

\* The stats of the result for no sessions
EmptyStats == [totalSessions |-> 0, totalHours |-> 0, averageHoursPerDay |-> 0]

\* Mutant of localOptimization: the placements that were moved off their
\* requested slot are left out of the copy.
localOptimizationDropsMoved(sched, cons) ==
  [day \in AllDays |->
     [dayName |-> sched[day].dayName,
      sessions |-> SortByStart(SelectSeq(sched[day].sessions,
                                         LAMBDA x : ~x.isAlternative)),
      totalHours |-> sched[day].totalHours]]

\* The copy made by JSON.parse(JSON.stringify(schedule)) with each day's list
\* sorted by start_time; schedule itself is not touched.
localOptimization(sched, cons) ==
  [day \in AllDays |->
     [dayName |-> sched[day].dayName,
      sessions |-> SortByStart(sched[day].sessions),
      totalHours |-> sched[day].totalHours]]

-----------------------------------------------------------------------------
(* The result cache: CacheManager over a Map and the table cache *)

TimetableKey == "timetable_1"
CoursesKey == "courses_1"
CacheKeys == {TimetableKey, CoursesKey}

\* String.prototype.includes(pattern) on the keys above
KeyIncludes(key, pattern) ==
  \/ key = pattern
  \/ (pattern = "timetable_" /\ key = TimetableKey)
  \/ (pattern = "courses_" /\ key = CoursesKey)

NoEntry == [absent |-> TRUE]
NoResp == [unanswered |-> TRUE]

maxMemoryItems == 1000

\* A cached GenerationResult is kept as the dbVer of the rows it was generated
\* from (value); setAt is the dbVer at the time cache.set stored it, expires
\* tells whether the entry carries an expiry time.
CacheEntry(value, at, expires) == [value |-> value, setAt |-> at, expires |-> expires]

MemHas(mem, key) == \E i \in 1..Len(mem) : mem[i].key = key

MemGet(mem, key) ==
  IF MemHas(mem, key)
  THEN (CHOOSE item \in {mem[i] : i \in 1..Len(mem)} : item.key = key).entry
  ELSE NoEntry

\* Map.prototype.delete
MemDelete(mem, key) ==
  LET Keep(item) == item.key # key IN SelectSeq(mem, Keep)

\* Map.prototype.set: a key already present keeps its place
MemSet(mem, key, entry) ==
  IF MemHas(mem, key)
  THEN [i \in 1..Len(mem) |-> IF mem[i].key = key
                               THEN [key |-> key, entry |-> entry] ELSE mem[i]]
  ELSE Append(mem, [key |-> key, entry |-> entry])

\* The keys other than those of CacheKeys: a run of n of them, set one after
\* another, is one item of the Map.
OtherKeys == "other keys"

RECURSIVE MemSize(_)
MemSize(mem) ==
  IF mem = <<>> THEN 0
  ELSE (IF mem[1].key = OtherKeys THEN mem[1].n ELSE 1) + MemSize(Tail(mem))

\* memoryCache.delete(memoryCache.keys().next().value)
MemDeleteFirst(mem) ==
  IF mem[1].key = OtherKeys /\ mem[1].n > 1
  THEN [mem EXCEPT ![1].n = @ - 1]
  ELSE Tail(mem)

MemEvict(mem) == IF MemSize(mem) >= maxMemoryItems THEN MemDeleteFirst(mem) ELSE mem

\* setMemoryCache with the item { value, expiresAt } already built
MemStore(mem, key, entry) == MemSet(MemEvict(mem), key, entry)

\* setMemoryCache for a key that is not in the Map and is not of CacheKeys
MemStoreOther(mem) ==
  LET room == MemEvict(mem)
  IN IF room # <<>> /\ room[Len(room)].key = OtherKeys
     THEN [room EXCEPT ![Len(room)].n = @ + 1]
     ELSE Append(room, [key |-> OtherKeys, n |-> 1])

setMemoryCache(mem, key, value, at, hasTtl) ==
  MemStore(mem, key, CacheEntry(value, at, hasTtl))

\* Time stamps as text.  toISOString gives 'YYYY-MM-DDTHH:MM:SS.sssZ',
\* CURRENT_TIMESTAMP gives 'YYYY-MM-DD HH:MM:SS'; SQLite compares the two as
\* text, so after equal dates it compares 'T' (84) with ' ' (32).
TicksPerDay == 3

toISOString(t) == <<t \div TicksPerDay, 84, t % TicksPerDay>>
CURRENT_TIMESTAMP == <<now \div TicksPerDay, 32, now % TicksPerDay>>

TextLess(a, b) ==
  \/ a[1] < b[1]
  \/ a[1] = b[1] /\ a[2] < b[2]
  \/ a[1] = b[1] /\ a[2] = b[2] /\ a[3] < b[3]

NoExpiry == -1
NullText == <<>>
NoValue == 0

\* ttlSeconds as given to set: 0 stands for null (and for 0, which set treats
\* the same way)
Ttls == {0, 1}

\* item of memoryCache, row of the table cache
TimedItem(value, ttl) ==
  [value |-> value, expiresAt |-> IF ttl # 0 THEN now + ttl ELSE NoExpiry]
TimedRow(value, ttl) ==
  [value |-> value, expires_at |-> IF ttl # 0 THEN toISOString(now + ttl) ELSE NullText]

\* WHERE key = ? AND (expires_at IS NULL OR expires_at > CURRENT_TIMESTAMP)
getCache(row) ==
  IF row # NoEntry /\ (row.expires_at = NullText
                        \/ TextLess(CURRENT_TIMESTAMP, row.expires_at))
  THEN row.value ELSE NoValue

CacheIdle ==
  /\ now = 0
  /\ stored = <<>>
  /\ lastGet = NoResp
  /\ fills = 0

-----------------------------------------------------------------------------
(* The timetable-entry function: table timetable, TimetableCache *)

\* A time of day as the text it is: a sequence of characters, a digit as
\* itself and ':' as 10 (it sorts after the digits).
T0900 == <<0, 9, 10, 0, 0>>
T0930 == <<0, 9, 10, 3, 0>>
T1000 == <<1, 0, 10, 0, 0>>
T1030 == <<1, 0, 10, 3, 0>>
T1100 == <<1, 1, 10, 0, 0>>
T915 == <<9, 10, 1, 5>>
T945 == <<9, 10, 4, 5>>

\* a < b of two strings
RECURSIVE TextBefore(_, _)
TextBefore(a, b) ==
  IF b = <<>> THEN FALSE
  ELSE IF a = <<>> THEN TRUE
  ELSE \/ a[1] < b[1]
       \/ a[1] = b[1] /\ TextBefore(Tail(a), Tail(b))

TextAtMost(a, b) == a = b \/ TextBefore(a, b)

\* The time of day a text 'H:MM' or 'HH:MM' stands for, in minutes
ClockMinutes(t) ==
  IF Len(t) = 5 THEN (t[1] * 10 + t[2]) * 60 + t[4] * 10 + t[5]
  ELSE t[1] * 60 + t[3] * 10 + t[4]

validDays == {"Monday", "Tuesday", "Wednesday", "Thursday", "Friday", "Saturday", "Sunday"}
validTypes == {"class", "lab"}

\* validateEntry: the errors of an entry whose times match timeRegex
validateEntry(entry) ==
  (IF entry.day \notin validDays THEN {"Invalid day"} ELSE {})
  \cup (IF ~TextBefore(entry.start_time, entry.end_time)
        THEN {"start_time must be before end_time"} ELSE {})
  \cup (IF entry.type \notin validTypes THEN {"Invalid type"} ELSE {})

\* checkOverlap(entry, excludeId) over the rows of the table; excludeId 0
\* stands for null
checkOverlap(entry, excludeId, rows) ==
  \E existing \in rows :
     /\ existing.day = entry.day
     /\ existing.id # excludeId
     /\ \/ /\ TextAtMost(existing.start_time, entry.start_time)
           /\ TextBefore(entry.start_time, existing.end_time)
        \/ /\ TextBefore(existing.start_time, entry.end_time)
           /\ TextAtMost(entry.end_time, existing.end_time)
        \/ /\ TextAtMost(entry.start_time, existing.start_time)
           /\ TextAtMost(existing.end_time, entry.end_time)

\* getAllEntries(day); "all" stands for no day.  The order of the rows is not
\* kept.
getAllEntries(day, rows) == IF day = "all" THEN rows ELSE {r \in rows : r.day = day}

\* Request bodies
EntrySlots == {<<T0900, T1000>>, <<T0930, T1030>>, <<T1000, T1100>>, <<T915, T945>>}

EntryBodies ==
  {[day |-> "Monday", start_time |-> w[1], end_time |-> w[2], type |-> "class"] :
     w \in EntrySlots}
  \cup {[day |-> "Funday", start_time |-> T0900, end_time |-> T1000, type |-> "class"]}

NotJson == [text |-> "not JSON"]

PostBodies == UNION {[1..n -> EntryBodies] : n \in 1..MaxBatch}
PutBodies == EntryBodies \cup {NotJson}
EntryIds == 1..MaxId
GetKeys == {"all", "Monday"}

IdleEntryGet == [pc |-> "idle", calls |-> 0, key |-> "all", data |-> {}, ver |-> 0,
                 startDone |-> 0, resp |-> NoResp]
IdleEntryMut == [pc |-> "idle", calls |-> 0, method |-> "none", known |-> FALSE,
                 before |-> {}, ver |-> 0, status |-> 0, code |-> "none"]

EntryIdle ==
  /\ timetable = {}
  /\ nextId = 1
  /\ entryCache = [k \in GetKeys |-> NoEntry]
  /\ entryVer = 0
  /\ entryDone = 0
  /\ entryGet = IdleEntryGet
  /\ entryMut = IdleEntryMut

-----------------------------------------------------------------------------
(* The chatbot's handlers that insert rows *)

\* The words of dayPattern, in lower case (the pattern ignores case and
\* normalizeDayName lowers its argument), and no day in the message
DayWords == {"monday", "tuesday", "wednesday", "thursday", "friday", "saturday", "sunday",
             "mon", "tue", "wed", "thu", "fri", "sat", "sun"}
NoWord == "no day"

normalizeDayName(day) ==
  CASE day \in {"mon", "monday"} -> "Monday"
    [] day \in {"tue", "tuesday"} -> "Tuesday"
    [] day \in {"wed", "wednesday"} -> "Wednesday"
    [] day \in {"thu", "thursday"} -> "Thursday"
    [] day \in {"fri", "friday"} -> "Friday"
    [] day \in {"sat", "saturday"} -> "Saturday"
    [] day \in {"sun", "sunday"} -> "Sunday"
    [] OTHER -> day

\* dayMap[dayName] || 1: the || takes 1 for a name that is not in the map and
\* for the value 0.
dayNameToNumber(dayName) ==
  LET dayMap == [n \in {dayNames[i] : i \in 1..7} |->
                   CHOOSE i \in 0..6 : dayNames[i + 1] = n]
  IN IF dayName \notin DOMAIN dayMap \/ dayMap[dayName] = 0 THEN 1 ELSE dayMap[dayName]

\* The time range of a message after parseTimeRange, or none
ChatRanges == {<<NoTime, NoTime>>, << <<14, 0>>, <<16, 0>> >>}

\* entities of a message: the day is set when the message holds a day word.
ChatEntities ==
  {[day |-> IF w = NoWord THEN NoWord ELSE normalizeDayName(w),
    start_time |-> r[1], end_time |-> r[2]] : w \in DayWords \cup {NoWord}, r \in ChatRanges}

ChatIdle == chatRows = <<>> /\ chatReplies = <<>>

EnhanceIdle == enhance = [pc |-> "idle"]

\* A request at rest, before its first call
IdleGet == [pc |-> "idle", calls |-> 0, row |-> NoEntry, snap |-> 0,
            startDone |-> 0, during |-> "none", resp |-> NoResp]
IdleRegen == [pc |-> "idle", calls |-> 0, snap |-> 0]
IdleMut == [pc |-> "idle", calls |-> 0, route |-> "none", ver |-> 0, keys |-> {}]

ServerIdle ==
  /\ dbVer = 0
  /\ doneVer = 0
  /\ memoryCache = <<>>
  /\ dbCache = [k \in CacheKeys |-> NoEntry]
  /\ getReq = IdleGet
  /\ regenReq = IdleRegen
  /\ mutReq = IdleMut
  /\ CacheIdle
  /\ EntryIdle
  /\ ChatIdle
  /\ EnhanceIdle

-----------------------------------------------------------------------------
(* Inputs: what the three queries of generateTimetable can return *)

CourseIds == {1, 2}
Priorities == {1, 2}

\* Course 1 is of high priority; course 2 of the same or of a lower one.
CourseInputs == {[c \in CourseIds |-> IF c = 1 THEN 1 ELSE p] : p \in Priorities}
SessionTypes == {"lab", "lecture"}
SessionDays == {1}
SessionSlots == {<< <<9, 0>>, <<10, 0>> >>, << <<10, 0>>, <<11, 0>> >>,
                 << <<9, 30>>, <<11, 30>> >>}

ConstraintTypes == {"unavailable", "preferred"}
ConstraintDays == {NoDay, 1}
ConstraintWindows == {<<NoTime, NoTime>>, << <<0, 0>>, <<23, 59>> >>,
                      << <<9, 30>>, <<23, 59>> >>}

SessionRows ==
  {[id |-> 0, course_id |-> c, type |-> t, day_of_week |-> d,
    start_time |-> w[1], end_time |-> w[2]] :
     c \in CourseIds, t \in SessionTypes, d \in SessionDays, w \in SessionSlots}

ConstraintRows ==
  {[type |-> t, day_of_week |-> d, start_time |-> w[1], end_time |-> w[2]] :
     t \in {"unavailable"}, d \in ConstraintDays, w \in ConstraintWindows}
  \cup {[type |-> "preferred", day_of_week |-> d,
          start_time |-> <<0, 0>>, end_time |-> <<23, 59>>] : d \in ConstraintDays}

\* getSessionsByUser: ORDER BY s.day_of_week, s.start_time
SessionQueryOrder(rows) ==
  \A i \in 1..(Len(rows) - 1) :
     \/ rows[i].day_of_week < rows[i + 1].day_of_week
     \/ /\ rows[i].day_of_week = rows[i + 1].day_of_week
        /\ ~StrLess(rows[i + 1].start_time, rows[i].start_time)

\* getConstraintsByUser: ORDER BY day_of_week, start_time (NULL sorts first);
\* the rows of one input differ from each other.
ConstraintQueryOrder(rows) ==
  LET dayKey(r) == IF r.day_of_week = NoDay THEN -1 ELSE r.day_of_week
      timeKey(r) == IF r.start_time = NoTime THEN -1 ELSE Minutes(r.start_time)
  IN /\ \A i \in 1..(Len(rows) - 1) :
           \/ dayKey(rows[i]) < dayKey(rows[i + 1])
           \/ /\ dayKey(rows[i]) = dayKey(rows[i + 1])
              /\ timeKey(rows[i]) <= timeKey(rows[i + 1])
     /\ \A i, j \in 1..Len(rows) : rows[i] = rows[j] => i = j

\* The rows carry their position in the query result as id.
SessionInputs ==
  UNION {{[i \in 1..n |-> [rows[i] EXCEPT !.id = i]] :
            rows \in {r \in [1..n -> SessionRows] : SessionQueryOrder(r)}} :
         n \in 0..MaxSessions}

ConstraintInputs ==
  UNION {{r \in [1..n -> ConstraintRows] : ConstraintQueryOrder(r)} :
         n \in 0..MaxConstraints}

\* A week of one-hour sessions at 09:00 of one course, on any days, with
\* nothing unavailable or everything unavailable.
WeekRows ==
  {[id |-> 0, course_id |-> 1, type |-> "lecture", day_of_week |-> d,
    start_time |-> <<9, 0>>, end_time |-> <<10, 0>>] : d \in AllDays}

WeekSessionInputs ==
  UNION {{[i \in 1..n |-> [rows[i] EXCEPT !.id = i]] :
            rows \in {r \in [1..n -> WeekRows] : SessionQueryOrder(r)}} :
         n \in (MaxSessions + 1)..MaxWeekSessions}

WeekConstraintInputs ==
  {<<>>, <<[type |-> "unavailable", day_of_week |-> NoDay,
            start_time |-> <<0, 0>>, end_time |-> <<23, 59>>]>>}

\* Rows that are not well formed: a course that is not among the courses, no
\* start and end time, no day; and one row that is.
MalformedRows ==
  {[id |-> 0, course_id |-> 3, type |-> "lecture", day_of_week |-> 1,
    start_time |-> <<9, 0>>, end_time |-> <<10, 0>>],
   [id |-> 0, course_id |-> 1, type |-> "lab", day_of_week |-> 1,
    start_time |-> NoTime, end_time |-> NoTime],
   [id |-> 0, course_id |-> 1, type |-> "lecture", day_of_week |-> NoDay,
    start_time |-> <<9, 0>>, end_time |-> <<10, 0>>]}

WellFormedRow ==
  [id |-> 0, course_id |-> 1, type |-> "lecture", day_of_week |-> 1,
   start_time |-> <<9, 0>>, end_time |-> <<10, 0>>]

MalformedSessionInputs ==
  UNION {{[i \in 1..n |-> [rows[i] EXCEPT !.id = i]] :
            rows \in {r \in [1..n -> MalformedRows \cup {WellFormedRow}] :
                        \E i \in 1..n : r[i] \in MalformedRows}} :
         n \in 1..MaxSessions}

\* Sessions of Monday and Wednesday in the morning, the afternoon and the
\* evening, with the constraints of the four types around them.
PlacementSlots == {<< <<9, 0>>, <<10, 30>> >>, << <<13, 0>>, <<14, 0>> >>,
                   << <<14, 0>>, <<15, 0>> >>, << <<18, 0>>, <<19, 0>> >>,
                   << <<19, 0>>, <<20, 30>> >>, << <<20, 0>>, <<20, 15>> >>}

PlacementRows ==
  {[id |-> 0, course_id |-> 1, type |-> "lecture", day_of_week |-> d,
    start_time |-> w[1], end_time |-> w[2]] : d \in {1, 3}, w \in PlacementSlots}

PlacementSessionInputs ==
  UNION {{[i \in 1..n |-> [rows[i] EXCEPT !.id = i]] :
            rows \in {r \in [1..n -> PlacementRows] : SessionQueryOrder(r)}} :
         n \in 1..MaxSessions}

ConstraintRow(type, day, start, end_) ==
  [type |-> type, day_of_week |-> day, start_time |-> start, end_time |-> end_]

PlacementConstraintInputs ==
  {<<>>,
   <<ConstraintRow("unavailable", 3, <<0, 0>>, <<23, 59>>)>>,
   <<ConstraintRow("unavailable", NoDay, <<0, 0>>, <<20, 0>>)>>,
   <<ConstraintRow("break", NoDay, <<0, 0>>, <<23, 59>>)>>,
   <<ConstraintRow("no_back_to_back", 1, <<9, 0>>, <<10, 30>>)>>,
   <<ConstraintRow("preferred", NoDay, <<0, 0>>, <<20, 0>>),
     ConstraintRow("unavailable", NoDay, <<0, 0>>, <<20, 0>>)>>}

\* Seven one-hour sessions at 09:00, one on each day of the week
ScenarioESessions ==
  [i \in 1..7 |-> [id |-> i, course_id |-> 1, type |-> "lecture", day_of_week |-> i - 1,
                   start_time |-> <<9, 0>>, end_time |-> <<10, 0>>]]

\* Four half-hour sessions that all ask for Monday 09:00-09:30
HalfHourSessions ==
  [i \in 1..4 |-> [id |-> i, course_id |-> 1, type |-> "lecture", day_of_week |-> 1,
                   start_time |-> <<9, 0>>, end_time |-> <<9, 30>>]]

\* Two one-hour sessions of Monday, 08:00-09:00 of the course of lower
\* priority and 08:30-09:30 of the course of higher priority, with Monday
\* unavailable from 10:00 and Tuesday to Friday unavailable all day.
NarrowMondaySessions ==
  <<[id |-> 1, course_id |-> 2, type |-> "lecture", day_of_week |-> 1,
     start_time |-> <<8, 0>>, end_time |-> <<9, 0>>],
    [id |-> 2, course_id |-> 1, type |-> "lecture", day_of_week |-> 1,
     start_time |-> <<8, 30>>, end_time |-> <<9, 30>>]>>

NarrowMondayConstraints ==
  <<ConstraintRow("unavailable", 1, <<10, 0>>, <<23, 59>>),
    ConstraintRow("unavailable", 2, <<0, 0>>, <<23, 59>>),
    ConstraintRow("unavailable", 3, <<0, 0>>, <<23, 59>>),
    ConstraintRow("unavailable", 4, <<0, 0>>, <<23, 59>>),
    ConstraintRow("unavailable", 5, <<0, 0>>, <<23, 59>>)>>

-----------------------------------------------------------------------------
(* The generator as a state machine *)

Init ==
  /\ \/ /\ courses \in CourseInputs
        /\ sessions \in SessionInputs
        /\ constraints \in ConstraintInputs
     \/ /\ courses = [c \in CourseIds |-> 1]
        /\ sessions \in WeekSessionInputs
        /\ constraints \in WeekConstraintInputs
     \/ /\ courses = [c \in CourseIds |-> 1]
        /\ sessions \in MalformedSessionInputs
        /\ constraints = <<>>
     \/ /\ courses = [c \in CourseIds |-> 1]
        /\ sessions \in PlacementSessionInputs
        /\ constraints \in PlacementConstraintInputs
     \/ /\ courses = [c \in CourseIds |-> 1]
        /\ sessions \in {ScenarioESessions, HalfHourSessions}
        /\ constraints = <<>>
     \/ /\ courses = [c \in CourseIds |-> c]
        /\ sessions = NarrowMondaySessions
        /\ constraints = NarrowMondayConstraints
  /\ pc = "idle"
  /\ sortedSessions = <<>>
  /\ idx = 1
  /\ schedule = createEmptySchedule
  /\ conflicts = <<>>
  /\ result = NoResult
  /\ prevResult = NoResult
  /\ currentTimetable = NoResult
  /\ ServerIdle

\* Mutant of GenerateTimetable: the sort is not stable, two neighbours of equal
\* rank may come out in either order.
GenerateTimetableUnstableSort ==
  /\ pc = "idle" \/ (pc = "done" /\ prevResult = NoResult)
  /\ Len(sessions) > 0
  /\ ~SortThrows(sessions, courses)
  /\ prevResult' = result
  /\ schedule' = createEmptySchedule
  /\ conflicts' = <<>>
  /\ idx' = 1
  /\ result' = NoResult
  /\ LET sorted == prioritizeSessions(sessions, courses)
         Swapped(k) == [i \in 1..Len(sorted) |->
                          IF i = k THEN sorted[k + 1]
                          ELSE IF i = k + 1 THEN sorted[k] ELSE sorted[i]]
     IN \/ sortedSessions' = sorted
        \/ \E k \in 1..(Len(sorted) - 1) :
              /\ comparePriority(sorted[k], sorted[k + 1], courses) = 0
              /\ sortedSessions' = Swapped(k)
  /\ pc' = "placing"
  /\ UNCHANGED <<courses, sessions, constraints, currentTimetable>>
  /\ UNCHANGED otherVars

\* Mutant of GenerateTimetable: no early return for an empty list of sessions,
\* the loop and the scoring run on it.
GenerateTimetableNoEmptyCase ==
  /\ pc = "idle" \/ (pc = "done" /\ prevResult = NoResult)
  /\ ~SortThrows(sessions, courses)
  /\ prevResult' = result
  /\ schedule' = createEmptySchedule
  /\ conflicts' = <<>>
  /\ idx' = 1
  /\ result' = NoResult
  /\ sortedSessions' = prioritizeSessions(sessions, courses)
  /\ pc' = "placing"
  /\ UNCHANGED <<courses, sessions, constraints, currentTimetable>>
  /\ UNCHANGED otherVars

\* generateTimetable up to the for-loop; a call after an earlier one returned
\* reads the same rows again.
GenerateTimetable ==
  /\ pc = "idle" \/ (pc = "done" /\ prevResult = NoResult)
  /\ prevResult' = result
  /\ schedule' = createEmptySchedule
  /\ conflicts' = <<>>
  /\ idx' = 1
  /\ IF Len(sessions) = 0
     THEN /\ result' = [schedule |-> createEmptySchedule,
                        conflicts |-> <<>>,
                        suggestions |-> <<Suggestion("add_sessions", NoDay, 0)>>,
                        score |-> 0,
                        stats |-> EmptyStats]
          /\ sortedSessions' = <<>>
          /\ pc' = "done"
     ELSE IF SortThrows(sessions, courses)
     THEN /\ result' = NoResult
          /\ sortedSessions' = <<>>
          /\ pc' = "threw"
     ELSE /\ result' = NoResult
          /\ sortedSessions' = prioritizeSessions(sessions, courses)
          /\ pc' = "placing"
  /\ UNCHANGED <<courses, sessions, constraints, currentTimetable>>
  /\ UNCHANGED otherVars

\* Mutant of PlaceNext: a session that finds no slot is dropped, no conflict
\* entry is made for it.
PlaceNextDropsUnplaced ==
  /\ pc = "placing"
  /\ idx <= Len(sortedSessions)
  /\ ~PlaceThrows(sortedSessions[idx])
  /\ LET session == sortedSessions[idx]
         placement == findBestPlacement(session, schedule, constraints)
     IN IF placement.success
        THEN schedule' = placeSession(schedule, session, placement)
        ELSE schedule' = schedule
  /\ idx' = idx + 1
  /\ UNCHANGED <<courses, sessions, constraints, pc, sortedSessions, conflicts,
                 result, prevResult, currentTimetable>>
  /\ UNCHANGED otherVars

\* Mutant of PlaceNext: a session that finds no slot ends the loop, the
\* sessions after it are not looked at.
PlaceNextAbortsOnFailure ==
  /\ pc = "placing"
  /\ idx <= Len(sortedSessions)
  /\ ~PlaceThrows(sortedSessions[idx])
  /\ LET session == sortedSessions[idx]
         placement == findBestPlacement(session, schedule, constraints)
     IN IF placement.success
        THEN /\ schedule' = placeSession(schedule, session, placement)
             /\ conflicts' = conflicts
             /\ idx' = idx + 1
        ELSE /\ conflicts' = Append(conflicts, [session |-> session,
                                                reason |-> placement.reason])
             /\ schedule' = schedule
             /\ idx' = Len(sortedSessions) + 1
  /\ UNCHANGED <<courses, sessions, constraints, pc, sortedSessions, result,
                 prevResult, currentTimetable>>
  /\ UNCHANGED otherVars

\* One iteration of `for (const session of sortedSessions)`
PlaceNext ==
  /\ pc = "placing"
  /\ idx <= Len(sortedSessions)
  /\ IF PlaceThrows(sortedSessions[idx])
     THEN /\ pc' = "threw"
          /\ UNCHANGED <<schedule, conflicts, idx>>
     ELSE LET session == sortedSessions[idx]
              placement == findBestPlacement(session, schedule, constraints)
          IN /\ IF placement.success
                THEN /\ schedule' = placeSession(schedule, session, placement)
                     /\ conflicts' = conflicts
                ELSE /\ conflicts' = Append(conflicts, [session |-> session,
                                                        reason |-> placement.reason])
                     /\ schedule' = schedule
             /\ idx' = idx + 1
             /\ pc' = pc
  /\ UNCHANGED <<courses, sessions, constraints, sortedSessions, result,
                 prevResult, currentTimetable>>
  /\ UNCHANGED otherVars

\* After the loop: suggestions, score, return
Finish ==
  /\ pc = "placing"
  /\ idx > Len(sortedSessions)
  /\ result' = [schedule |-> schedule,
                conflicts |-> conflicts,
                suggestions |-> generateSuggestions(schedule, conflicts, constraints),
                score |-> calculateScore(schedule, conflicts, constraints),
                stats |-> calculateStats(schedule)]
  /\ pc' = "done"
  /\ UNCHANGED <<courses, sessions, constraints, sortedSessions, idx, schedule,
                 conflicts, prevResult, currentTimetable>>
  /\ UNCHANGED otherVars

\* optimizeTimetable(userId, currentTimetable) on the result just returned
OptimizeTimetable ==
  /\ pc = "done"
  /\ LET optimized == localOptimization(result.schedule, constraints)
     IN result' = [result EXCEPT
                     !.schedule = optimized,
                     !.score = calculateScore(optimized, <<>>, constraints),
                     !.suggestions = generateSuggestions(optimized, <<>>, constraints)]
  /\ currentTimetable' = result
  /\ pc' = "optimized"
  /\ UNCHANGED <<courses, sessions, constraints, sortedSessions, idx, schedule,
                 conflicts, prevResult>>
  /\ UNCHANGED otherVars

Next == GenerateTimetable \/ PlaceNext \/ Finish \/ OptimizeTimetable

Spec == Init /\ [][Next]_vars

\* One or more one-hour sessions at 09:00 on any days of the week
ShortWeekSessionInputs ==
  UNION {{[i \in 1..n |-> [rows[i] EXCEPT !.id = i]] :
            rows \in {r \in [1..n -> WeekRows] : SessionQueryOrder(r)}} :
         n \in 1..MaxSessions}

InitFair ==
  /\ courses = [c \in CourseIds |-> 1]
  /\ sessions \in ShortWeekSessionInputs
  /\ constraints \in WeekConstraintInputs
  /\ pc = "idle"
  /\ sortedSessions = <<>>
  /\ idx = 1
  /\ schedule = createEmptySchedule
  /\ conflicts = <<>>
  /\ result = NoResult
  /\ prevResult = NoResult
  /\ currentTimetable = NoResult
  /\ ServerIdle

\* The loop is synchronous code of one call: once entered it runs on.
FairSpec == InitFair /\ [][Next]_vars /\ WF_vars(PlaceNext) /\ WF_vars(Finish)

-----------------------------------------------------------------------------
(* prioritizeSessions on its own, over all types and priorities *)

SortCourseInputs == [CourseIds -> 1..3]
SortTypes == {"lab", "tutorial", "lecture", "seminar", "workshop"}
SortSlots == {<< <<9, 0>>, <<10, 0>> >>, << <<9, 0>>, <<11, 0>> >>}

SortRows ==
  {[id |-> 0, course_id |-> c, type |-> t, day_of_week |-> 1,
    start_time |-> w[1], end_time |-> w[2]] :
     c \in CourseIds, t \in SortTypes, w \in SortSlots}

SortInputs ==
  UNION {{[i \in 1..n |-> [rows[i] EXCEPT !.id = i]] : rows \in [1..n -> SortRows]} :
         n \in 0..MaxSortLen}

InitSort ==
  /\ courses \in SortCourseInputs
  /\ sessions \in SortInputs
  /\ constraints = <<>>
  /\ pc = "idle"
  /\ sortedSessions = <<>>
  /\ idx = 1
  /\ schedule = createEmptySchedule
  /\ conflicts = <<>>
  /\ result = NoResult
  /\ prevResult = NoResult
  /\ currentTimetable = NoResult
  /\ ServerIdle

\* const sortedSessions = this.prioritizeSessions(sessions, courses)
Prioritize ==
  /\ pc = "idle"
  /\ sortedSessions' = prioritizeSessions(sessions, courses)
  /\ pc' = "sorted"
  /\ UNCHANGED <<courses, sessions, constraints, idx, schedule, conflicts, result,
                 prevResult, currentTimetable>>
  /\ UNCHANGED otherVars

NextSort == Prioritize

SpecSort == InitSort /\ [][NextSort]_vars

-----------------------------------------------------------------------------
(* The server: the routes and chatbot handlers that read or write the rows   *)
(* and the cache.  A handler runs to its next await in one step; a database  *)
(* statement takes effect in a step of its own, between the steps of other   *)
(* requests.  The three reads of generateTimetable are one step.  No entry   *)
(* expires within these runs (the TTL is an hour).                           *)

\* What each route or handler does to the cache after its write
TimetableRoutes == {"POST /api/sessions", "POST /api/constraints"}
PatternRoutes == {"DELETE /api/constraints/:id"}
CourseRoutes == {"POST /api/courses", "PUT /api/courses/:id", "DELETE /api/courses/:id"}
ChatHandlers == {"handleAddCourse", "handleScheduleSession", "handleAddConstraint"}

\* The key a route passes to cache.invalidate
InvalidatedKey(route) == IF route \in CourseRoutes THEN CoursesKey ELSE TimetableKey

GenFrame == UNCHANGED <<genVars, cacheVars, entryVars, chatVars, enhance>>

\* The key of a cache.invalidate that has deleted from memory and not yet
\* from the table
HalfInvalidated ==
  IF mutReq.pc = "inv_db" THEN InvalidatedKey(mutReq.route) ELSE "none"

\* GET /api/timetable/:userId up to the first await: cache.get looks in memory
StartGet ==
  /\ getReq.pc = "idle"
  /\ getReq.calls < MaxCalls
  /\ LET item == MemGet(memoryCache, TimetableKey)
     IN IF item # NoEntry
        THEN getReq' = [getReq EXCEPT !.calls = @ + 1, !.startDone = doneVer,
                          !.during = HalfInvalidated,
                          !.resp = [fromCache |-> TRUE, value |-> item.value,
                                    setAt |-> item.setAt]]
        ELSE getReq' = [getReq EXCEPT !.calls = @ + 1, !.startDone = doneVer,
                          !.during = HalfInvalidated,
                          !.resp = NoResp, !.pc = "get_db"]
  /\ UNCHANGED <<dbVer, doneVer, memoryCache, dbCache, regenReq, mutReq>>
  /\ GenFrame

\* db.getCache reads the row
GetDbRead ==
  /\ getReq.pc = "get_db"
  /\ getReq' = [getReq EXCEPT !.row = dbCache[TimetableKey], !.pc = "get_db_cont"]
  /\ UNCHANGED <<dbVer, doneVer, memoryCache, dbCache, regenReq, mutReq>>
  /\ GenFrame

\* cache.get after db.getCache: a row goes to memory, without ttl, and is the answer
GetDbReturn ==
  /\ getReq.pc = "get_db_cont"
  /\ IF getReq.row # NoEntry
     THEN /\ memoryCache' = setMemoryCache(memoryCache, TimetableKey,
                                           getReq.row.value, getReq.row.setAt, FALSE)
          /\ getReq' = [getReq EXCEPT !.pc = "idle", !.row = NoEntry,
                          !.resp = [fromCache |-> TRUE, value |-> getReq.row.value,
                                    setAt |-> getReq.row.setAt]]
     ELSE /\ memoryCache' = memoryCache
          /\ getReq' = [getReq EXCEPT !.pc = "gen_read"]
  /\ UNCHANGED <<dbVer, doneVer, dbCache, regenReq, mutReq>>
  /\ GenFrame

\* generateTimetable reads the rows
GetGenerate ==
  /\ getReq.pc = "gen_read"
  /\ getReq' = [getReq EXCEPT !.snap = dbVer, !.pc = "set_db"]
  /\ UNCHANGED <<dbVer, doneVer, memoryCache, dbCache, regenReq, mutReq>>
  /\ GenFrame

\* cache.set: db.setCache writes the row
GetSetDb ==
  /\ getReq.pc = "set_db"
  /\ dbCache' = [dbCache EXCEPT ![TimetableKey] = CacheEntry(getReq.snap, dbVer, TRUE)]
  /\ getReq' = [getReq EXCEPT !.pc = "set_memory"]
  /\ UNCHANGED <<dbVer, doneVer, memoryCache, regenReq, mutReq>>
  /\ GenFrame

\* cache.set: setMemoryCache, then the response
GetSetMemory ==
  /\ getReq.pc = "set_memory"
  /\ memoryCache' = setMemoryCache(memoryCache, TimetableKey, getReq.snap, dbVer, TRUE)
  /\ getReq' = [getReq EXCEPT !.pc = "idle",
                  !.resp = [fromCache |-> FALSE, value |-> getReq.snap, setAt |-> dbVer]]
  /\ UNCHANGED <<dbVer, doneVer, dbCache, regenReq, mutReq>>
  /\ GenFrame

\* POST /api/timetable/regenerate/:userId: cache.invalidate deletes from memory
StartRegenerate ==
  /\ regenReq.pc = "idle"
  /\ regenReq.calls < MaxCalls
  /\ memoryCache' = MemDelete(memoryCache, TimetableKey)
  /\ regenReq' = [regenReq EXCEPT !.calls = @ + 1, !.pc = "inv_db"]
  /\ UNCHANGED <<dbVer, doneVer, dbCache, getReq, mutReq>>
  /\ GenFrame

\* cache.invalidate: db.deleteCache
RegenInvalidateDb ==
  /\ regenReq.pc = "inv_db"
  /\ dbCache' = [dbCache EXCEPT ![TimetableKey] = NoEntry]
  /\ regenReq' = [regenReq EXCEPT !.pc = "gen_read"]
  /\ UNCHANGED <<dbVer, doneVer, memoryCache, getReq, mutReq>>
  /\ GenFrame

RegenGenerate ==
  /\ regenReq.pc = "gen_read"
  /\ regenReq' = [regenReq EXCEPT !.snap = dbVer, !.pc = "set_db"]
  /\ UNCHANGED <<dbVer, doneVer, memoryCache, dbCache, getReq, mutReq>>
  /\ GenFrame

RegenSetDb ==
  /\ regenReq.pc = "set_db"
  /\ dbCache' = [dbCache EXCEPT ![TimetableKey] = CacheEntry(regenReq.snap, dbVer, TRUE)]
  /\ regenReq' = [regenReq EXCEPT !.pc = "set_memory"]
  /\ UNCHANGED <<dbVer, doneVer, memoryCache, getReq, mutReq>>
  /\ GenFrame

RegenSetMemory ==
  /\ regenReq.pc = "set_memory"
  /\ memoryCache' = setMemoryCache(memoryCache, TimetableKey, regenReq.snap, dbVer, TRUE)
  /\ regenReq' = [regenReq EXCEPT !.pc = "idle"]
  /\ UNCHANGED <<dbVer, doneVer, dbCache, getReq, mutReq>>
  /\ GenFrame

\* A route of server.js creates, updates or deletes a row; its cache
\* invalidation follows.
RouteWrite ==
  /\ mutReq.pc = "idle"
  /\ mutReq.calls < MaxCalls
  /\ \E route \in TimetableRoutes \cup PatternRoutes \cup CourseRoutes :
        mutReq' = [mutReq EXCEPT !.calls = @ + 1, !.route = route,
                     !.ver = dbVer + 1, !.pc = "inv_memory"]
  /\ dbVer' = dbVer + 1
  /\ UNCHANGED <<doneVer, memoryCache, dbCache, getReq, regenReq>>
  /\ GenFrame

\* handleAddCourse, handleScheduleSession, handleAddConstraint create a row
\* and answer; they do not touch the cache.
ChatBotWrite ==
  /\ mutReq.pc = "idle"
  /\ mutReq.calls < MaxCalls
  /\ \E handler \in ChatHandlers :
        mutReq' = [mutReq EXCEPT !.calls = @ + 1, !.route = handler,
                     !.ver = dbVer + 1]
  /\ dbVer' = dbVer + 1
  /\ doneVer' = dbVer + 1
  /\ UNCHANGED <<memoryCache, dbCache, getReq, regenReq>>
  /\ GenFrame

\* cache.invalidate / cache.invalidatePattern: the deletes from memoryCache
RouteInvalidateMemory ==
  /\ mutReq.pc = "inv_memory"
  /\ IF mutReq.route \in PatternRoutes
     THEN /\ memoryCache' =
               LET Keep(item) == ~KeyIncludes(item.key, "timetable_")
               IN SelectSeq(memoryCache, Keep)
          /\ mutReq' = [mutReq EXCEPT !.pc = "pattern_select"]
     ELSE /\ memoryCache' = MemDelete(memoryCache, InvalidatedKey(mutReq.route))
          /\ mutReq' = [mutReq EXCEPT !.pc = "inv_db"]
  /\ UNCHANGED <<dbVer, doneVer, dbCache, getReq, regenReq>>
  /\ GenFrame

\* cache.invalidate: db.deleteCache, then the response
RouteInvalidateDb ==
  /\ mutReq.pc = "inv_db"
  /\ dbCache' = [dbCache EXCEPT ![InvalidatedKey(mutReq.route)] = NoEntry]
  /\ mutReq' = [mutReq EXCEPT !.pc = "idle"]
  /\ doneVer' = mutReq.ver
  /\ UNCHANGED <<dbVer, memoryCache, getReq, regenReq>>
  /\ GenFrame

\* cache.invalidatePattern: SELECT key FROM cache
PatternSelect ==
  /\ mutReq.pc = "pattern_select"
  /\ mutReq' = [mutReq EXCEPT !.pc = "pattern_delete",
                  !.keys = {k \in CacheKeys : dbCache[k] # NoEntry}]
  /\ UNCHANGED <<dbVer, doneVer, memoryCache, dbCache, getReq, regenReq>>
  /\ GenFrame

\* cache.invalidatePattern: db.deleteCache of the selected keys that match,
\* then the response
PatternDelete ==
  /\ mutReq.pc = "pattern_delete"
  /\ dbCache' = [k \in CacheKeys |->
                   IF k \in mutReq.keys /\ KeyIncludes(k, "timetable_")
                   THEN NoEntry ELSE dbCache[k]]
  /\ mutReq' = [mutReq EXCEPT !.pc = "idle", !.keys = {}]
  /\ doneVer' = mutReq.ver
  /\ UNCHANGED <<dbVer, memoryCache, getReq, regenReq>>
  /\ GenFrame

InitServer ==
  /\ courses = [c \in CourseIds |-> 1]
  /\ sessions = <<>>
  /\ constraints = <<>>
  /\ pc = "idle"
  /\ sortedSessions = <<>>
  /\ idx = 1
  /\ schedule = createEmptySchedule
  /\ conflicts = <<>>
  /\ result = NoResult
  /\ prevResult = NoResult
  /\ currentTimetable = NoResult
  /\ ServerIdle

NextServer ==
  \/ StartGet \/ GetDbRead \/ GetDbReturn \/ GetGenerate \/ GetSetDb \/ GetSetMemory
  \/ StartRegenerate \/ RegenInvalidateDb \/ RegenGenerate \/ RegenSetDb
  \/ RegenSetMemory
  \/ RouteWrite \/ ChatBotWrite \/ RouteInvalidateMemory \/ RouteInvalidateDb
  \/ PatternSelect \/ PatternDelete

SpecServer == InitServer /\ [][NextServer]_vars

-----------------------------------------------------------------------------
(* CacheManager under one client that awaits each call before the next: a    *)
(* call is one step.  The calls are on the key timetable_1 and on other      *)
(* keys; the other keys are fresh ones, set in one row of maxMemoryItems     *)
(* calls with no other call and no tick in between.  The rows of the other   *)
(* keys in the table are never read and are left out.                        *)

CacheFrame ==
  UNCHANGED <<genVars, dbVer, doneVer, getReq, regenReq, mutReq, entryVars, chatVars, enhance>>

BetweenRows == fills % maxMemoryItems = 0

\* cache.set(key, value, ttlSeconds) with a value not stored before
CacheSet ==
  /\ BetweenRows
  /\ Len(stored) < MaxSets
  /\ \E ttl \in Ttls :
        LET value == Len(stored) + 1
        IN /\ dbCache' = [dbCache EXCEPT ![TimetableKey] = TimedRow(value, ttl)]
           /\ memoryCache' = MemStore(memoryCache, TimetableKey, TimedItem(value, ttl))
           /\ stored' = Append(stored, TimedItem(value, ttl).expiresAt)
  /\ UNCHANGED <<now, lastGet, fills>>
  /\ CacheFrame

\* cache.set(otherKey, value, ttlSeconds)
CacheSetOther ==
  /\ fills < maxMemoryItems
  /\ memoryCache' = MemStoreOther(memoryCache)
  /\ fills' = fills + 1
  /\ UNCHANGED <<now, stored, lastGet, dbCache>>
  /\ CacheFrame

\* cache.get(key)
CacheGet ==
  /\ BetweenRows
  /\ LET item == MemGet(memoryCache, TimetableKey)
         live == item # NoEntry /\ (item.expiresAt = NoExpiry \/ item.expiresAt > now)
         swept == IF item # NoEntry /\ ~live
                  THEN MemDelete(memoryCache, TimetableKey) ELSE memoryCache
         cached == getCache(dbCache[TimetableKey])
     IN IF live
        THEN /\ lastGet' = [value |-> item.value, at |-> now]
             /\ memoryCache' = memoryCache
        ELSE IF cached # NoValue
        THEN /\ lastGet' = [value |-> cached, at |-> now]
             /\ memoryCache' = MemStore(swept, TimetableKey, TimedItem(cached, 0))
        ELSE /\ lastGet' = [value |-> NoValue, at |-> now]
             /\ memoryCache' = swept
  /\ UNCHANGED <<now, stored, fills, dbCache>>
  /\ CacheFrame

\* cache.invalidate(key)
CacheInvalidate ==
  /\ BetweenRows
  /\ memoryCache' = MemDelete(memoryCache, TimetableKey)
  /\ dbCache' = [dbCache EXCEPT ![TimetableKey] = NoEntry]
  /\ UNCHANGED cacheVars
  /\ CacheFrame

\* cache.cleanup(): the expired items of memoryCache, then clearExpiredCache
CacheCleanup ==
  /\ BetweenRows
  /\ LET item == MemGet(memoryCache, TimetableKey)
         row == dbCache[TimetableKey]
     IN /\ memoryCache' =
             IF item # NoEntry /\ item.expiresAt # NoExpiry /\ item.expiresAt <= now
             THEN MemDelete(memoryCache, TimetableKey) ELSE memoryCache
        /\ dbCache' =
             IF row # NoEntry /\ row.expires_at # NullText
                /\ ~TextLess(CURRENT_TIMESTAMP, row.expires_at)
             THEN [dbCache EXCEPT ![TimetableKey] = NoEntry] ELSE dbCache
  /\ UNCHANGED cacheVars
  /\ CacheFrame

\* Time passes
Tick ==
  /\ BetweenRows
  /\ now < MaxTime
  /\ now' = now + 1
  /\ UNCHANGED <<stored, lastGet, fills, memoryCache, dbCache>>
  /\ CacheFrame

NextCache ==
  CacheSet \/ CacheSetOther \/ CacheGet \/ CacheInvalidate \/ CacheCleanup \/ Tick

SpecCache == InitServer /\ [][NextCache]_vars

-----------------------------------------------------------------------------
(* The timetable-entry function.  One GET and one writing request run at a   *)
(* time; a handler runs to its await of the database in one step and from    *)
(* the database's answer to its response in another.  With one writer the    *)
(* checks and the statement of a write are one step.  No cached list expires *)
(* within these runs (the TTL is five minutes).                              *)

EntryFrame == UNCHANGED <<genVars, srvVars, cacheVars, chatVars, enhance>>

\* What the handler makes of the request once the database has answered
Answer(method, known, status, code) ==
  [entryMut EXCEPT !.pc = "respond", !.calls = @ + 1, !.method = method,
                   !.known = known, !.before = timetable,
                   !.ver = IF status = 200 THEN entryVer + 1 ELSE entryVer,
                   !.status = status, !.code = code]

Written(rows) ==
  /\ timetable' = rows
  /\ entryVer' = entryVer + 1

NotWritten == UNCHANGED <<timetable, entryVer, nextId>>

\* handlePost with a body {entries: [...]}: createEntries validates all
\* entries, checks each against the rows of the table, inserts them all
EntryPost ==
  /\ entryMut.pc = "idle"
  /\ entryMut.calls < MaxEntryCalls
  /\ \E entries \in PostBodies :
        IF \E i \in 1..Len(entries) : validateEntry(entries[i]) # {}
        THEN /\ entryMut' = Answer("POST", FALSE, 400, "VALIDATION_ERROR")
             /\ NotWritten
        ELSE IF \E i \in 1..Len(entries) : checkOverlap(entries[i], 0, timetable)
        THEN /\ entryMut' = Answer("POST", FALSE, 409, "CONFLICT")
             /\ NotWritten
        ELSE /\ entryMut' = Answer("POST", FALSE, 200, "none")
             /\ Written(timetable \cup
                          {[id |-> nextId + i - 1, day |-> entries[i].day,
                            start_time |-> entries[i].start_time,
                            end_time |-> entries[i].end_time,
                            type |-> entries[i].type] : i \in 1..Len(entries)})
             /\ nextId' = nextId + Len(entries)
  /\ UNCHANGED <<entryCache, entryDone, entryGet>>
  /\ EntryFrame

\* handlePut(id, body): JSON.parse, then updateEntry validates, checks for
\* overlaps with the rows of other ids, updates the row
EntryPut ==
  /\ entryMut.pc = "idle"
  /\ entryMut.calls < MaxEntryCalls
  /\ \E id \in EntryIds, body \in PutBodies :
        LET known == \E r \in timetable : r.id = id
        IN IF body = NotJson
           THEN /\ entryMut' = Answer("PUT", known, 500, "DATABASE_ERROR")
                /\ NotWritten
           ELSE IF validateEntry(body) \cap {"Invalid day", "Invalid type"} # {}
           THEN /\ entryMut' = Answer("PUT", known, 400, "VALIDATION_ERROR")
                /\ NotWritten
           ELSE IF validateEntry(body) # {}
           THEN /\ entryMut' = Answer("PUT", known, 500, "DATABASE_ERROR")
                /\ NotWritten
           ELSE IF checkOverlap(body, id, timetable)
           THEN /\ entryMut' = Answer("PUT", known, 409, "CONFLICT")
                /\ NotWritten
           ELSE IF ~known
           THEN /\ entryMut' = Answer("PUT", known, 404, "NOT_FOUND")
                /\ NotWritten
           ELSE /\ entryMut' = Answer("PUT", known, 200, "none")
                /\ Written({r \in timetable : r.id # id} \cup
                             {[id |-> id, day |-> body.day,
                               start_time |-> body.start_time,
                               end_time |-> body.end_time, type |-> body.type]})
                /\ nextId' = nextId
  /\ UNCHANGED <<entryCache, entryDone, entryGet>>
  /\ EntryFrame

\* handleDelete(id): deleteEntry
EntryDelete ==
  /\ entryMut.pc = "idle"
  /\ entryMut.calls < MaxEntryCalls
  /\ \E id \in EntryIds :
        LET known == \E r \in timetable : r.id = id
        IN IF ~known
           THEN /\ entryMut' = Answer("DELETE", known, 404, "NOT_FOUND")
                /\ NotWritten
           ELSE /\ entryMut' = Answer("DELETE", known, 200, "none")
                /\ Written({r \in timetable : r.id # id})
                /\ nextId' = nextId
  /\ UNCHANGED <<entryCache, entryDone, entryGet>>
  /\ EntryFrame

\* After the await: cache.invalidate() and the success response, or the
\* catch block and the error response
EntryRespond ==
  /\ entryMut.pc = "respond"
  /\ entryMut' = [entryMut EXCEPT !.pc = "idle"]
  /\ IF entryMut.status = 200
     THEN /\ entryCache' = [k \in GetKeys |-> NoEntry]
          /\ entryDone' = entryMut.ver
     ELSE UNCHANGED <<entryCache, entryDone>>
  /\ UNCHANGED <<timetable, nextId, entryVer, entryGet>>
  /\ EntryFrame

\* handleGet up to the await: cache.getTimetable(cacheKey)
EntryGetStart ==
  /\ entryGet.pc = "idle"
  /\ entryGet.calls < MaxEntryCalls
  /\ \E key \in GetKeys :
        IF entryCache[key] # NoEntry
        THEN entryGet' = [entryGet EXCEPT !.calls = @ + 1, !.key = key,
                            !.startDone = entryDone, !.resp = entryCache[key]]
        ELSE entryGet' = [entryGet EXCEPT !.calls = @ + 1, !.key = key,
                            !.startDone = entryDone, !.resp = NoResp, !.pc = "read"]
  /\ UNCHANGED <<timetable, nextId, entryCache, entryVer, entryDone, entryMut>>
  /\ EntryFrame

\* db.getAllEntries(day) reads the rows
EntryGetRead ==
  /\ entryGet.pc = "read"
  /\ entryGet' = [entryGet EXCEPT !.data = getAllEntries(entryGet.key, timetable),
                                  !.ver = entryVer, !.pc = "set"]
  /\ UNCHANGED <<timetable, nextId, entryCache, entryVer, entryDone, entryMut>>
  /\ EntryFrame

\* After the await: cache.setTimetable(data, cacheKey) and the response
EntryGetSet ==
  /\ entryGet.pc = "set"
  /\ LET cached == [data |-> entryGet.data, ver |-> entryGet.ver]
     IN /\ entryCache' = [entryCache EXCEPT ![entryGet.key] = cached]
        /\ entryGet' = [entryGet EXCEPT !.pc = "idle", !.resp = cached]
  /\ UNCHANGED <<timetable, nextId, entryVer, entryDone, entryMut>>
  /\ EntryFrame

NextEntries ==
  \/ EntryPost \/ EntryPut \/ EntryDelete \/ EntryRespond
  \/ EntryGetStart \/ EntryGetRead \/ EntryGetSet

SpecEntries == InitServer /\ [][NextEntries]_vars

-----------------------------------------------------------------------------
(* The chatbot: handleScheduleSession and handleAddConstraint for a message    *)
(* that names a course the user has.  A handler is one step.                   *)

ChatFrame == UNCHANGED <<genVars, srvVars, cacheVars, entryVars, enhance>>

handleScheduleSession ==
  /\ Len(chatReplies) < MaxChat
  /\ \E entities \in ChatEntities :
        IF entities.day = NoWord \/ entities.start_time = NoTime
           \/ entities.end_time = NoTime
        THEN /\ chatReplies' = Append(chatReplies,
                                      [action |-> "request_schedule_details",
                                       day |-> entities.day, row |-> 0])
             /\ chatRows' = chatRows
        ELSE /\ chatRows' = Append(chatRows,
                                   [table |-> "sessions",
                                    day_of_week |-> dayNameToNumber(entities.day),
                                    start_time |-> entities.start_time,
                                    end_time |-> entities.end_time])
             /\ chatReplies' = Append(chatReplies,
                                      [action |-> "session_created",
                                       day |-> entities.day, row |-> Len(chatRows) + 1])
  /\ ChatFrame

handleAddConstraint ==
  /\ Len(chatReplies) < MaxChat
  /\ \E entities \in ChatEntities :
        /\ chatRows' = Append(chatRows,
                              [table |-> "constraints",
                               day_of_week |-> IF entities.day # NoWord
                                               THEN dayNameToNumber(entities.day)
                                               ELSE NoDay,
                               start_time |-> entities.start_time,
                               end_time |-> entities.end_time])
        /\ chatReplies' = Append(chatReplies,
                                 [action |-> "constraint_added",
                                  day |-> entities.day, row |-> Len(chatRows) + 1])
  /\ ChatFrame

NextChat == handleScheduleSession \/ handleAddConstraint

SpecChat == InitServer /\ [][NextChat]_vars

-----------------------------------------------------------------------------
(* POST /timetable/enhance: handleEnhance and processTimetableEntries *)

\* toLowerCase().trim() of the days and subjects of the inputs
Lower(text) ==
  CASE text = "Monday" -> "monday"
    [] text = "Math" -> "math"
    [] OTHER -> text

EnhanceEntries ==
  {[day |-> "Monday", subject |-> sub, start_time |-> w[1], end_time |-> w[2],
    type |-> t] :
     sub \in {"Math", "math"},
     w \in {<< <<9, 0>>, <<10, 0>> >>, << <<10, 0>>, <<11, 0>> >>,
            << <<9, 30>>, <<10, 0>> >>},
     t \in {"class", "lab"}}

\* The bodies: an entries array of 0..MaxEntries entries
EnhanceBodies == UNION {[1..n -> EnhanceEntries] : n \in 0..MaxEntries}

GroupKey(entry) == <<Lower(entry.day), Lower(entry.subject)>>

\* The keys of entriesByDayAndSubject in the order they were added
RECURSIVE GroupKeys(_)
GroupKeys(entries) ==
  IF entries = <<>> THEN <<>>
  ELSE LET front == GroupKeys(SubSeq(entries, 1, Len(entries) - 1))
           key == GroupKey(entries[Len(entries)])
       IN IF \E i \in 1..Len(front) : front[i] = key THEN front ELSE Append(front, key)

\* The loop over group[1..] of one sorted group; current and the entries
\* pushed so far
RECURSIVE MergeFrom(_, _, _, _)
MergeFrom(group, i, current, pushed) ==
  IF i > Len(group) THEN Append(pushed, current)
  ELSE LET entry == group[i]
       IN IF /\ entry.subject = current.subject
             /\ entry.type = current.type
             /\ entry.end_time = group[i - 1].end_time
          THEN MergeFrom(group, i + 1, [current EXCEPT !.end_time = entry.end_time], pushed)
          ELSE MergeFrom(group, i + 1, entry, Append(pushed, current))

processTimetableEntries(entries) ==
  IF Len(entries) = 0 THEN entries
  ELSE LET keys == GroupKeys(entries)
           group(k) == SortByStart(SelectSeq(entries, LAMBDA e : GroupKey(e) = keys[k]))
       IN Flatten([k \in 1..Len(keys) |-> MergeFrom(group(k), 2, group(k)[1], <<>>)])

EnhanceFrame == UNCHANGED <<genVars, srvVars, cacheVars, entryVars, chatVars>>

handleEnhance ==
  /\ enhance.pc = "idle"
  /\ \E entries \in EnhanceBodies :
        enhance' = IF Len(entries) = 0
                   THEN [pc |-> "done", entries |-> entries, status |-> 400,
                         data |-> <<>>]
                   ELSE [pc |-> "done", entries |-> entries, status |-> 200,
                         data |-> processTimetableEntries(entries)]
  /\ EnhanceFrame

NextEnhance == handleEnhance

SpecEnhance == InitServer /\ [][NextEnhance]_vars

-----------------------------------------------------------------------------
(* Properties of the generator *)

\* Overlap of two half-open intervals of minutes of the day
Overlap(start1, end1, start2, end2) ==
  Minutes(start1) < Minutes(end2) /\ Minutes(start2) < Minutes(end1)

NoOverlapIn(sched) ==
  \A day \in AllDays :
     \A i, j \in 1..Len(sched[day].sessions) :
        i < j => ~Overlap(sched[day].sessions[i].start_time,
                          sched[day].sessions[i].end_time,
                          sched[day].sessions[j].start_time,
                          sched[day].sessions[j].end_time)

Returned == result # NoResult

\* The placements of a schedule, each with the day of the list it is in
PlacementsOf(sched) ==
  UNION {{[day |-> day, pos |-> i, p |-> sched[day].sessions[i]] :
            i \in 1..Len(sched[day].sessions)} : day \in AllDays}

\* C1: in every state of the placement loop and in every returned schedule, no
\* two placements of one day overlap as half-open [start_time, end_time).
C1_NoOverlap ==
  /\ NoOverlapIn(schedule)
  /\ Returned => NoOverlapIn(result.schedule)

\* C1 witness: a returned day list holds two placements, one of them moved
\* because its requested slot was taken.
C1_Witness ==
  /\ pc = "done"
  /\ constraints = <<>>
  /\ \E day \in AllDays :
        /\ Len(result.schedule[day].sessions) >= 2
        /\ \E i \in 1..Len(result.schedule[day].sessions) :
              result.schedule[day].sessions[i].isAlternative

\* The placements and the conflict entries made from input session i
PlacementsFrom(res, i) ==
  {e \in PlacementsOf(res.schedule) :
     /\ e.p.id = sessions[i].id
     /\ e.p.course_id = sessions[i].course_id
     /\ e.p.type = sessions[i].type}

ConflictsFrom(res, i) ==
  {k \in 1..Len(res.conflicts) : res.conflicts[k].session = sessions[i]}

\* C2: in the result of generateTimetable every input session is the source
\* of exactly one placement or of exactly one conflict entry, never of both
\* and never of none; the result holds nothing else.
C2_Conservation ==
  pc = "done" =>
    /\ \A i \in 1..Len(sessions) :
          Cardinality(PlacementsFrom(result, i))
            + Cardinality(ConflictsFrom(result, i)) = 1
    /\ Cardinality(PlacementsOf(result.schedule)) + Len(result.conflicts)
         = Len(sessions)

\* C2 witness: a result with a placement and a conflict entry.
C2_Witness ==
  /\ pc = "done"
  /\ Len(result.conflicts) > 0
  /\ PlacementsOf(result.schedule) # {}

\* An unavailable constraint with both times set that applies to day
TimedUnavailableOn(c, day) ==
  /\ c.type = "unavailable"
  /\ c.start_time # NoTime
  /\ c.end_time # NoTime
  /\ (c.day_of_week = NoDay \/ c.day_of_week = day)

ClearOfTimedUnavailable(sched) ==
  \A e \in PlacementsOf(sched) :
     \A k \in 1..Len(constraints) :
        TimedUnavailableOn(constraints[k], e.day) =>
          ~Overlap(e.p.start_time, e.p.end_time,
                   constraints[k].start_time, constraints[k].end_time)

\* C3: no placement of a returned schedule (requested slot, same-day
\* alternative or other day) overlaps the window of an unavailable constraint
\* with both times set that applies to the placement's day.
C3_UnavailableRespected ==
  /\ ClearOfTimedUnavailable(schedule)
  /\ Returned => ClearOfTimedUnavailable(result.schedule)

\* C3 witness: a session whose requested slot lies in an unavailable window
\* of every day was placed on another day than requested.
C3_Witness ==
  /\ pc = "done"
  /\ \E k \in 1..Len(constraints) :
        /\ TimedUnavailableOn(constraints[k], 1)
        /\ constraints[k].day_of_week = NoDay
  /\ \E e \in PlacementsOf(result.schedule) : e.p.isDifferentDay

\* C4 (the claim as stated): no session is placed on a day to which an
\* unavailable constraint with neither start_time nor end_time applies.
C4_AllDayUnavailable ==
  \A e \in PlacementsOf(schedule) :
     \A k \in 1..Len(constraints) :
        ~(/\ constraints[k].type = "unavailable"
          /\ constraints[k].start_time = NoTime
          /\ constraints[k].end_time = NoTime
          /\ (constraints[k].day_of_week = NoDay
              \/ constraints[k].day_of_week = e.day))

\* C7: the score of every returned result, of generateTimetable and of
\* optimizeTimetable, lies in 0..100.
C7_ScoreBounds ==
  Returned => (0 <= result.score /\ result.score <= 100 * ScoreUnit)

\* C7 witness: six conflicts and nothing placed, 100 - 6 * 20 is below 0 and
\* the returned score is 0.
C7_Witness ==
  /\ pc = "done"
  /\ Len(result.conflicts) >= 6
  /\ result.score = 0

PlacedAsRequested(res, i) ==
  \E e \in PlacementsFrom(res, i) :
     /\ e.day = sessions[i].day_of_week
     /\ e.p.start_time = sessions[i].start_time
     /\ e.p.end_time = sessions[i].end_time
     /\ ~e.p.isAlternative
     /\ ~e.p.isDifferentDay

BackToBackInput ==
  /\ constraints = <<>>
  /\ Len(sessions) = 2
  /\ sessions[1].day_of_week = sessions[2].day_of_week
  /\ \/ sessions[1].end_time = sessions[2].start_time
     \/ sessions[2].end_time = sessions[1].start_time

\* C9: two sessions of one day, one ending when the other starts, and no
\* constraints: both are placed as requested and conflicts is empty.
C9_BackToBack ==
  (pc = "done" /\ BackToBackInput) =>
    /\ PlacedAsRequested(result, 1)
    /\ PlacedAsRequested(result, 2)
    /\ result.conflicts = <<>>

\* C9 witness: the run on 09:00-10:00 and 10:00-11:00 of Monday returned.
C9_Witness ==
  /\ pc = "done"
  /\ BackToBackInput
  /\ sessions[1].end_time = <<10, 0>>
  /\ sessions[2].start_time = <<10, 0>>

ScenarioBInput ==
  /\ constraints = <<>>
  /\ Len(sessions) = 2
  /\ \A i \in 1..2 :
        /\ sessions[i].day_of_week = 1
        /\ sessions[i].start_time = <<9, 0>>
        /\ sessions[i].end_time = <<10, 0>>

\* The session at position k of the prioritized order lies on Monday at
\* start..end_, with the given isAlternative.
ScenarioBPlaced(k, start, end_, alt) ==
  \E e \in PlacementsOf(result.schedule) :
     /\ e.p.id = sortedSessions[k].id
     /\ e.day = 1
     /\ e.p.start_time = start
     /\ e.p.end_time = end_
     /\ e.p.isAlternative = alt
     /\ ~e.p.isDifferentDay

\* C10 (the claim as stated): of two sessions asking for Monday 09:00-10:00
\* the first is placed there and the second at Monday 10:00-11:00.
C10_ScenarioB_Stated ==
  (pc = "done" /\ ScenarioBInput) =>
    /\ ScenarioBPlaced(1, <<9, 0>>, <<10, 0>>, FALSE)
    /\ ScenarioBPlaced(2, <<10, 0>>, <<11, 0>>, TRUE)

\* C10 (amended): the first is placed at Monday 09:00-10:00 as requested and
\* the second, by the same-day search, at the earliest free candidate,
\* Monday 08:00-09:00, with isAlternative.
C10_ScenarioB ==
  (pc = "done" /\ ScenarioBInput) =>
    /\ ScenarioBPlaced(1, <<9, 0>>, <<10, 0>>, FALSE)
    /\ ScenarioBPlaced(2, <<8, 0>>, <<9, 0>>, TRUE)
    /\ result.conflicts = <<>>

\* C10 witness: the run on two requests of Monday 09:00-10:00 returned.
C10_Witness ==
  /\ pc = "done"
  /\ ScenarioBInput
  /\ Len(result.schedule[1].sessions) = 2

\* The session finds no slot: not the requested one, no candidate of its own
\* day, no candidate of weekdays 1..5
NoSlotFor(session, sched, cons) ==
  /\ ~isTimeSlotAvailable(session.day_of_week, session.start_time,
                          session.end_time, sched, cons)
  /\ \A day \in {session.day_of_week} \cup (1..5) :
        findAlternativeSlots(session, day, sched, cons) = <<>>

UnplacedStep ==
  (/\ pc = "placing"
   /\ idx <= Len(sortedSessions)
   /\ ~PlaceThrows(sortedSessions[idx])
   /\ NoSlotFor(sortedSessions[idx], schedule, constraints)) =>
    /\ conflicts' = Append(conflicts,
                           [session |-> sortedSessions[idx],
                            reason |-> "No available time slots found"])
    /\ schedule' = schedule
    /\ sortedSessions' = sortedSessions
    /\ idx' = idx + 1
    /\ pc' = "placing"

AllProcessed ==
  (pc = "done" /\ sessions # <<>>) =>
    /\ idx = Len(sortedSessions) + 1
    /\ Len(sortedSessions) = Len(sessions)
    /\ \A k \in 1..Len(result.conflicts) :
          /\ result.conflicts[k].reason = "No available time slots found"
          /\ \A j \in 1..Len(result.conflicts) :
                result.conflicts[j].session = result.conflicts[k].session => j = k

\* C11: a session that finds no slot (requested, same day, other weekdays)
\* does not end the run: the step appends exactly one conflict entry with that
\* session and the reason 'No available time slots found', leaves the schedule
\* alone and moves on to the next session; when the result is returned every
\* session of the prioritized order has been processed and no session has two
\* conflict entries.
C11_FailedPlacementContinues == [][UnplacedStep]_vars /\ []AllProcessed

\* C11 witness: a returned result in which a session that became a conflict
\* is followed in the prioritized order by a session that was placed.
C11_Witness ==
  /\ pc = "done"
  /\ \E k \in 1..Len(sortedSessions) :
        /\ \E c \in 1..Len(result.conflicts) :
              result.conflicts[c].session = sortedSessions[k]
        /\ \E j \in (k + 1)..Len(sortedSessions) :
              \E e \in PlacementsOf(result.schedule) : e.p.id = sortedSessions[j].id

Malformed(session, crs) ==
  \/ session.course_id \notin DOMAIN crs
  \/ session.day_of_week = NoDay
  \/ session.start_time = NoTime
  \/ session.end_time = NoTime

\* C12 (the claim as stated): a session with no day, no start or end time, or
\* a course that is not among the courses does not make generateTimetable
\* throw; in the returned result it is in conflicts with the reason 'invalid
\* session data'.
C12_MalformedSkipped ==
  /\ pc # "threw"
  /\ pc = "done" =>
        \A i \in 1..Len(sessions) :
           Malformed(sessions[i], courses) =>
             \E k \in 1..Len(result.conflicts) :
                /\ result.conflicts[k].session = sessions[i]
                /\ result.conflicts[k].reason = "invalid session data"

\* C13: for no sessions generateTimetable returns a schedule of seven empty
\* day lists with totalHours 0, no conflicts, score 0 and exactly one
\* suggestion, whatever the courses and constraints are.
C13_EmptyInput ==
  (pc = "done" /\ sessions = <<>>) =>
    /\ \A day \in AllDays :
          /\ result.schedule[day].sessions = <<>>
          /\ result.schedule[day].totalHours = 0
    /\ DOMAIN result.schedule = AllDays
    /\ result.conflicts = <<>>
    /\ result.score = 0
    /\ Len(result.suggestions) = 1

\* C13 witness: the result for no sessions, with a course of another
\* priority and an unavailable constraint present.
C13_Witness ==
  /\ pc = "done"
  /\ sessions = <<>>
  /\ \E c \in DOMAIN courses : courses[c] # 1
  /\ \E k \in 1..Len(constraints) : constraints[k].type = "unavailable"

RECURSIVE SumOver(_, _)
SumOver(f, S) ==
  IF S = {} THEN 0
  ELSE LET x == CHOOSE y \in S : TRUE IN f[x] + SumOver(f, S \ {x})

\* C14: in a result for at least one session, stats.totalSessions is the
\* number of placements of the seven days, which is the number of input
\* sessions minus the number of conflicts; stats.workingDays is the number of
\* days with a placement; the per-day counts and the per-type counts each add
\* up to totalSessions.
C14_StatsFromSchedule ==
  (pc = "done" /\ sessions # <<>>) =>
    /\ result.stats.totalSessions = Cardinality(PlacementsOf(result.schedule))
    /\ result.stats.totalSessions = Len(sessions) - Len(result.conflicts)
    /\ result.stats.workingDays =
         Cardinality({day \in AllDays : result.schedule[day].sessions # <<>>})
    /\ SumOver(result.stats.sessionsByDay, DOMAIN result.stats.sessionsByDay)
         = result.stats.totalSessions
    /\ SumOver(result.stats.sessionsByType, DOMAIN result.stats.sessionsByType)
         = result.stats.totalSessions

\* C14 witness: a result with placements on Sunday and on another day.
C14_Witness ==
  /\ pc = "done"
  /\ Len(result.conflicts) = 0
  /\ result.schedule[0].sessions # <<>>
  /\ result.stats.workingDays >= 2
  /\ result.stats.totalSessions >= 3

CountIn(x, seq) == Cardinality({i \in 1..Len(seq) : seq[i] = x})

SameMultiset(s1, s2) ==
  /\ Len(s1) = Len(s2)
  /\ \A i \in 1..Len(s1) : CountIn(s1[i], s1) = CountIn(s1[i], s2)

AscendingByStart(seq) ==
  \A i \in 1..(Len(seq) - 1) :
     Minutes(seq[i].start_time) <= Minutes(seq[i + 1].start_time)

OptimizeStep ==
  (pc = "done" /\ pc' = "optimized") =>
    /\ \A day \in AllDays :
          /\ SameMultiset(result'.schedule[day].sessions, result.schedule[day].sessions)
          /\ result'.schedule[day].totalHours = result.schedule[day].totalHours
          /\ AscendingByStart(result'.schedule[day].sessions)
    /\ result'.conflicts = result.conflicts
    /\ result'.stats = result.stats
    /\ currentTimetable' = result

SlotFree(day, start, end_, sched, cons) ==
  /\ \A i \in 1..Len(sched[day].sessions) :
        ~Overlap(start, end_, sched[day].sessions[i].start_time,
                 sched[day].sessions[i].end_time)
  /\ \A k \in 1..Len(cons) :
        (/\ cons[k].type = "unavailable"
         /\ cons[k].day_of_week \in {NoDay, day}) =>
          /\ cons[k].start_time # NoTime
          /\ cons[k].end_time # NoTime
          /\ ~Overlap(start, end_, cons[k].start_time, cons[k].end_time)

\* The 25 candidate starts 08:00, 08:30, ..., 20:00
CandidateStarts == {<<h, m>> : h \in 8..20, m \in {0, 30}} \ {<<20, 30>>}

ClockOf(minutes) == <<minutes \div 60, minutes % 60>>

CandidateEnd(session, start) ==
  ClockOf(Minutes(start) + Minutes(session.end_time) - Minutes(session.start_time))

FeasibleStarts(session, day, sched, cons) ==
  {s \in CandidateStarts :
     /\ Minutes(CandidateEnd(session, s)) < 21 * 60
     /\ SlotFree(day, s, CandidateEnd(session, s), sched, cons)}

EarliestStart(S) == CHOOSE s \in S : \A t \in S : Minutes(s) <= Minutes(t)

FeasibleDays(session, sched, cons) ==
  {d \in 1..5 : d # session.day_of_week /\ FeasibleStarts(session, d, sched, cons) # {}}

\* A step of the loop on a well-formed session
LoopStep ==
  /\ pc = "placing"
  /\ idx <= Len(sortedSessions)
  /\ ~PlaceThrows(sortedSessions[idx])
  /\ idx' = idx + 1

RequestedFree(session) ==
  SlotFree(session.day_of_week, session.start_time, session.end_time,
           schedule, constraints)

\* The step adds the session to the list of day at start, with these flags.
AddedAt(session, day, start, alt, diff) ==
  /\ conflicts' = conflicts
  /\ \E i \in 1..Len(schedule'[day].sessions) :
        LET p == schedule'[day].sessions[i]
        IN /\ p.id = session.id
           /\ p.start_time = start
           /\ p.end_time = CandidateEnd(session, start)
           /\ p.isAlternative = alt
           /\ p.isDifferentDay = diff
  /\ \A d \in AllDays :
        Len(schedule'[d].sessions)
          = Len(schedule[d].sessions) + (IF d = day THEN 1 ELSE 0)

PreferredStep ==
  (LoopStep /\ RequestedFree(sortedSessions[idx])) =>
    AddedAt(sortedSessions[idx], sortedSessions[idx].day_of_week,
            sortedSessions[idx].start_time, FALSE, FALSE)

MondayMorningInput ==
  /\ constraints = <<>>
  /\ Len(sessions) = 1
  /\ sessions[1].day_of_week = 1
  /\ sessions[1].start_time = <<9, 0>>
  /\ sessions[1].end_time = <<10, 30>>

\* C21: a session whose requested day and times overlap no placement of that
\* day and no applicable unavailable constraint is placed at the requested
\* day and times with isAlternative and isDifferentDay false; a single session
\* Monday 09:00-10:30 with no constraints is placed as requested.
C21_PreferredSlot ==
  /\ [][PreferredStep]_vars
  /\ []((pc = "done" /\ MondayMorningInput) =>
          (PlacedAsRequested(result, 1) /\ result.conflicts = <<>>))

\* C21 witness: the run on the single session Monday 09:00-10:30 returned
\* with the session in Monday's list.
C21_Witness ==
  /\ pc = "done"
  /\ MondayMorningInput
  /\ Len(result.schedule[1].sessions) = 1

SameDayStep ==
  LET session == sortedSessions[idx]
      starts == FeasibleStarts(session, session.day_of_week, schedule, constraints)
  IN (LoopStep /\ ~RequestedFree(session) /\ starts # {}) =>
       \E diff \in BOOLEAN :
          AddedAt(session, session.day_of_week, EarliestStart(starts), TRUE, diff)

\* C22: when the requested slot is not free and some of the 25 candidate
\* starts gives a feasible slot of the session's duration on the requested
\* day, the session is placed on that day at the earliest such start with
\* isAlternative true.
C22_SameDayEarliest == [][SameDayStep]_vars

\* C22 witness: a session was moved within its day to a start after 08:00,
\* the earlier candidates being taken.
C22_Witness ==
  /\ pc = "done"
  /\ \E e \in PlacementsOf(result.schedule) :
        /\ e.p.isAlternative
        /\ e.day = e.p.day_of_week
        /\ Minutes(e.p.start_time) > 8 * 60

CrossDayStep ==
  LET session == sortedSessions[idx]
      starts == FeasibleStarts(session, session.day_of_week, schedule, constraints)
      days == FeasibleDays(session, schedule, constraints)
  IN /\ (LoopStep /\ ~RequestedFree(session) /\ starts = {} /\ days # {}) =>
          \E alt \in BOOLEAN :
             AddedAt(session, Min(days),
                     EarliestStart(FeasibleStarts(session, Min(days), schedule, constraints)),
                     alt, TRUE)
     /\ (LoopStep /\ conflicts' # conflicts) => days = {}

\* C23: when neither the requested slot nor a candidate of the requested day
\* is feasible, the session is placed on the lowest of the days 1..5 other
\* than the requested one that has a feasible candidate, at that day's
\* earliest feasible start, with isDifferentDay true; a conflict entry is
\* made only when there is no such day.
C23_CrossDayLowest == [][CrossDayStep]_vars

\* The loop of generateTimetable run again from position i on other
\* constraints
RECURSIVE RunLoop(_, _, _, _, _)
RunLoop(sorted, i, sched, confl, cons) ==
  IF i > Len(sorted) THEN [schedule |-> sched, conflicts |-> confl]
  ELSE LET placement == findBestPlacement(sorted[i], sched, cons)
       IN IF placement.success
          THEN RunLoop(sorted, i + 1, placeSession(sched, sorted[i], placement), confl, cons)
          ELSE RunLoop(sorted, i + 1, sched,
                       Append(confl, [session |-> sorted[i], reason |-> placement.reason]),
                       cons)

InertTypes == {"preferred", "break", "no_back_to_back"}

WithoutInert(cons) == SelectSeq(cons, LAMBDA c : c.type \notin InertTypes)

C25_PlacementDayIsListDay ==
  \A e \in PlacementsOf(schedule) : e.p.day_of_week = e.day

\* The score as stated, in units of 1 / ScoreUnit of a point; the hour totals
\* are in minutes.
HourSpread(sched) ==
  LET hours == {sched[d].totalHours : d \in AllDays}
  IN (CHOOSE h \in hours : \A g \in hours : h >= g)
     - (CHOOSE h \in hours : \A g \in hours : h <= g)

NeighbourGaps(sched) ==
  UNION {{[day |-> d, pos |-> i,
           gap |-> Minutes(sched[d].sessions[i + 1].start_time)
                   - Minutes(sched[d].sessions[i].end_time)] :
            i \in 1..(Len(sched[d].sessions) - 1)} : d \in AllDays}

ImbalancePenalty(sched) == (5 * ScoreUnit * HourSpread(sched)) \div 60

StatedScore(sched, nConflicts) ==
  LET raw == 100 * ScoreUnit
             - 20 * ScoreUnit * nConflicts
             - ImbalancePenalty(sched)
             - 5 * ScoreUnit * Cardinality({g \in NeighbourGaps(sched) : g.gap > 120})
             - 10 * ScoreUnit * Cardinality({g \in NeighbourGaps(sched) : g.gap > 180})
             + 2 * ScoreUnit * Cardinality({e \in PlacementsOf(sched) :
                                              e.p.start_time[1] \in 9..17})
  IN IF raw < 0 THEN 0 ELSE IF raw > 100 * ScoreUnit THEN 100 * ScoreUnit ELSE raw

\* C26: the score is 100, minus 20 per conflict, minus 5 times the difference
\* of the largest and the smallest of the seven daily hour totals, minus 5 for
\* every pair of neighbours of a day more than 120 minutes apart and 10 more
\* when more than 180 minutes apart, plus 2 for every placement starting in
\* the hours 9..17, clamped to 0..100; optimizeTimetable scores with no
\* conflicts.
C26_ScoreFormula ==
  /\ (pc = "done" /\ Len(sessions) > 0) =>
        result.score = StatedScore(result.schedule, Len(result.conflicts))
  /\ pc = "optimized" => result.score = StatedScore(result.schedule, 0)

\* C26 witness: a returned score strictly inside 0..100 for a schedule with
\* two neighbours more than 180 minutes apart and a placement starting
\* outside the hours 9..17.
C26_Witness ==
  /\ pc = "done"
  /\ result.score > 0
  /\ result.score < 100 * ScoreUnit
  /\ \E g \in NeighbourGaps(result.schedule) : g.gap > 180
  /\ \E e \in PlacementsOf(result.schedule) : e.p.start_time[1] \notin 9..17

ScenarioEInput == sessions = ScenarioESessions /\ constraints = <<>>

\* C27 (the claim as stated): in scenario E the largest and the smallest
\* daily hour total differ by 1 and the imbalance penalty is 5.
C27_ScenarioE_Stated ==
  (pc = "done" /\ ScenarioEInput) =>
    /\ HourSpread(result.schedule) = 60
    /\ ImbalancePenalty(result.schedule) = 5 * ScoreUnit

\* C27 (amended): in scenario E each of the seven days gets its session at
\* 09:00-10:00, every daily hour total is 1, the largest and the smallest
\* differ by 0, the imbalance penalty is 0 and the score is 100.
C27_ScenarioE ==
  (pc = "done" /\ ScenarioEInput) =>
    /\ \A d \in AllDays :
          /\ Len(result.schedule[d].sessions) = 1
          /\ result.schedule[d].sessions[1].start_time = <<9, 0>>
          /\ result.schedule[d].totalHours = 60
    /\ result.conflicts = <<>>
    /\ HourSpread(result.schedule) = 0
    /\ ImbalancePenalty(result.schedule) = 0
    /\ result.score = 100 * ScoreUnit

\* C27 witness: the run on scenario E returned with seven placements.
C27_Witness ==
  /\ pc = "done"
  /\ ScenarioEInput
  /\ Cardinality(PlacementsOf(result.schedule)) = 7

Affirmation == <<Suggestion("optimized", NoDay, 0)>>

\* One of the four rules of the suggestion step triggers on the outcome.
RuleTriggers(sched, confl) ==
  \/ HourSpread(sched) > 3 * 60
  \/ \E g \in NeighbourGaps(sched) : g.gap > 120
  \/ Len(confl) > 0
  \/ \E d \in AllDays :
        Cardinality({g \in NeighbourGaps(sched) : g.day = d /\ g.gap = 0}) > 2

\* C28 (the claim as stated): the suggestions of a generation result are
\* never empty, and they are the single affirmation exactly when none of the
\* four rules triggers.
C28_Suggestions_Stated ==
  pc = "done" =>
    /\ result.suggestions # <<>>
    /\ result.suggestions = Affirmation
         <=> ~RuleTriggers(result.schedule, result.conflicts)

\* C28 (amended): the suggestions of a generation result are never empty;
\* for no sessions they are the single hint to add courses and sessions;
\* for at least one session they are the single affirmation exactly when
\* none of the four rules triggers.
C28_Suggestions ==
  pc = "done" =>
    /\ result.suggestions # <<>>
    /\ Len(sessions) = 0 =>
         result.suggestions = <<Suggestion("add_sessions", NoDay, 0)>>
    /\ Len(sessions) > 0 =>
         (result.suggestions = Affirmation
            <=> ~RuleTriggers(result.schedule, result.conflicts))

\* C28 witness: a result with the affirmation alone, for two sessions of one
\* day that are exactly 120 minutes apart or closer.
C28_Witness ==
  /\ pc = "done"
  /\ result.suggestions = Affirmation
  /\ \E d \in AllDays : Len(result.schedule[d].sessions) >= 2

\* The sum of the lengths of the placements of a day, in minutes
RECURSIVE MinutesOf(_)
MinutesOf(list) ==
  IF list = <<>> THEN 0
  ELSE Minutes(list[1].end_time) - Minutes(list[1].start_time) + MinutesOf(Tail(list))

\* C29: in every state of the loop each day's list is in ascending order of
\* start_time and each day's totalHours is the sum of the lengths of the
\* day's placements (end_time - start_time, in minutes over 60); a day
\* without a placement has totalHours 0.
C29_DayListsSortedAndSummed ==
  \A d \in AllDays :
     /\ \A i \in 1..(Len(schedule[d].sessions) - 1) :
           Minutes(schedule[d].sessions[i].start_time)
             <= Minutes(schedule[d].sessions[i + 1].start_time)
     /\ schedule[d].totalHours = MinutesOf(schedule[d].sessions)
     /\ schedule[d].sessions = <<>> => schedule[d].totalHours = 0

\* C29 witness: a session was put in front of one placed before it.
C29_Witness ==
  /\ pc = "placing"
  /\ \E d \in AllDays :
        /\ Len(schedule[d].sessions) >= 2
        /\ schedule[d].sessions[1].isAlternative
        /\ ~schedule[d].sessions[2].isAlternative

\* C30: a placement that was moved starts at one of the 25 candidate starts
\* 08:00, 08:30, ..., 20:00 and ends before 21:00.
C30_MovedWithinCandidates ==
  \A e \in PlacementsOf(schedule) :
     (e.p.isAlternative \/ e.p.isDifferentDay) =>
       /\ e.p.start_time \in CandidateStarts
       /\ Minutes(e.p.end_time) < 21 * 60
       /\ Minutes(e.p.end_time) - Minutes(e.p.start_time)
            = Minutes(sessions[e.p.id].end_time) - Minutes(sessions[e.p.id].start_time)

\* C30 witness: a session that asked for 19:00-20:30 found every candidate
\* start from 19:30 closed by the 21:00 limit and was placed earlier.
C30_Witness ==
  /\ pc = "done"
  /\ \E e \in PlacementsOf(result.schedule) :
        /\ e.p.isAlternative
        /\ sessions[e.p.id].start_time = <<19, 0>>
        /\ Minutes(e.p.start_time) < 19 * 60

\* The session the loop is at
AtSession ==
  /\ pc = "placing"
  /\ idx <= Len(sortedSessions)
  /\ ~PlaceThrows(sortedSessions[idx])

LoopEnds == pc = "placing" ~> pc \in {"done", "threw"}

\* C31 (the claim as stated): generateTimetable terminates, and the searches
\* for one session go through at most 25 * 5 = 125 candidates, whatever the
\* requested day.
C31_BoundedSearch_Stated ==
  /\ [](AtSession =>
          candidatesExamined(sortedSessions[idx], schedule, constraints) <= 125)
  /\ LoopEnds

\* C31 (amended): generateTimetable terminates, and the searches for one
\* session go through at most 125 candidates when the requested day is one
\* of 1..5 and at most 25 * 6 = 150 when it is Sunday or Saturday.
C31_BoundedSearch ==
  /\ [](AtSession =>
          candidatesExamined(sortedSessions[idx], schedule, constraints)
            <= (IF sortedSessions[idx].day_of_week \in 1..5 THEN 125 ELSE 150))
  /\ LoopEnds

\* C31 witness: a session asking for Sunday or Saturday finds nothing on its
\* day and nothing on the five weekdays, after 150 candidates.
C31_Witness ==
  /\ AtSession
  /\ sortedSessions[idx].day_of_week \in {0, 6}
  /\ candidatesExamined(sortedSessions[idx], schedule, constraints) = 150

NarrowMondayInput ==
  /\ sessions = NarrowMondaySessions
  /\ constraints = NarrowMondayConstraints
  /\ courses[1] < courses[2]

Reversed(seq) == [i \in 1..Len(seq) |-> seq[Len(seq) + 1 - i]]

\* C32: first-fit depends on the order: on the narrow Monday (two free hours,
\* 08:00-10:00, and no other day) the run in priority order places
\* 08:30-09:30 first and reports a conflict for 08:00-09:00, while the same
\* steps over the same sessions in the other order place both.
C32_OrderDependent ==
  (pc = "done" /\ NarrowMondayInput) =>
    /\ Len(result.conflicts) >= 1
    /\ LET other == RunLoop(Reversed(sortedSessions), 1, createEmptySchedule, <<>>,
                            constraints)
       IN /\ other.conflicts = <<>>
          /\ Cardinality(PlacementsOf(other.schedule)) = Len(sessions)

\* C32 witness: the run on the narrow Monday returned with one session
\* placed and one in conflict.
C32_Witness ==
  /\ pc = "done"
  /\ NarrowMondayInput
  /\ Len(result.conflicts) = 1
  /\ Cardinality(PlacementsOf(result.schedule)) = 1

LengthOf(x) == Minutes(x.end_time) - Minutes(x.start_time)

DurationKept(sched) ==
  \A e \in PlacementsOf(sched) :
     /\ LengthOf(e.p) = LengthOf(sessions[e.p.id])
     /\ e.p.duration = LengthOf(sessions[e.p.id])

\* C35: every placement, in the loop and in a returned schedule, is as long
\* as the input session it was made from, whether placed as requested, as a
\* same-day alternative or on another day.
C35_DurationPreserved ==
  /\ DurationKept(schedule)
  /\ Returned => DurationKept(result.schedule)

\* C35 witness: a session of 90 minutes was placed on another day.
C35_Witness ==
  /\ pc = "done"
  /\ \E e \in PlacementsOf(result.schedule) :
        e.p.isDifferentDay /\ LengthOf(sessions[e.p.id]) = 90

FlagsConsistent(sched) ==
  \A e \in PlacementsOf(sched) :
     LET requested == sessions[e.p.id].day_of_week
     IN /\ ~(e.p.isAlternative /\ e.p.isDifferentDay)
        /\ (e.p.isAlternative \/ ~e.p.isDifferentDay) => e.day = requested
        /\ e.p.isDifferentDay => (e.day \in 1..5 /\ e.day # requested)
        /\ e.day \in {0, 6} => requested = e.day

\* C36: isAlternative and isDifferentDay are never both true; a placement
\* with isAlternative, or with neither flag, lies on the requested day; one
\* with isDifferentDay lies on a day of 1..5 other than the requested one;
\* the lists of Sunday and Saturday hold only sessions that asked for them.
C36_FlagsConsistent ==
  /\ FlagsConsistent(schedule)
  /\ Returned => FlagsConsistent(result.schedule)

\* C36 witness: a result with one placement as requested and one on another
\* day than requested.
C36_Witness ==
  /\ pc = "done"
  /\ \E e, f \in PlacementsOf(result.schedule) :
        /\ e.p.isDifferentDay
        /\ ~f.p.isAlternative /\ ~f.p.isDifferentDay

\* A timed or all-day unavailable constraint of the session's day lies over
\* the requested slot.
ConstraintOverRequested(session) ==
  \E k \in 1..Len(constraints) :
     /\ constraints[k].type = "unavailable"
     /\ constraints[k].day_of_week \in {NoDay, session.day_of_week}
     /\ \/ constraints[k].start_time = NoTime
        \/ constraints[k].end_time = NoTime
        \/ Overlap(session.start_time, session.end_time,
                   constraints[k].start_time, constraints[k].end_time)

\* A placement made for a session earlier in the order lies over the
\* requested slot.
EarlierOverRequested(session) ==
  \E i \in 1..Len(schedule[session.day_of_week].sessions) :
     LET p == schedule[session.day_of_week].sessions[i]
     IN /\ \E k \in 1..(idx - 1) : sortedSessions[k].id = p.id
        /\ Overlap(session.start_time, session.end_time, p.start_time, p.end_time)

EarlierWinsStep ==
  LET session == sortedSessions[idx]
      asRequested == AddedAt(session, session.day_of_week, session.start_time,
                             FALSE, FALSE)
  IN LoopStep =>
       /\ ~asRequested =>
            (EarlierOverRequested(session) \/ ConstraintOverRequested(session))
       /\ (idx = 1 /\ ~ConstraintOverRequested(session)) => asRequested
       /\ \A e \in PlacementsOf(schedule) :
             \E f \in PlacementsOf(schedule') : f.day = e.day /\ f.p = e.p

\* C37: a session is moved or turned into a conflict only when a placement
\* of a session earlier in the prioritized order or an applicable unavailable
\* constraint lies over its requested slot; the first session of the order
\* gets its requested slot when no such constraint lies over it; a step of
\* the loop leaves the day and the times of every earlier placement.
C37_EarlierPriorityWins == [][EarlierWinsStep]_vars

\* C37 witness: the second session of the order was moved within its day by
\* the placement of the first, which kept its requested slot.
C37_Witness ==
  /\ pc = "done"
  /\ Len(sortedSessions) >= 2
  /\ constraints = <<>>
  /\ \E e, f \in PlacementsOf(result.schedule) :
        /\ e.p.id = sortedSessions[1].id
        /\ ~e.p.isAlternative /\ ~e.p.isDifferentDay
        /\ f.p.id = sortedSessions[2].id
        /\ f.p.isAlternative
        /\ f.day = e.day

\* C38: the score returned by optimizeTimetable for a result of
\* generateTimetable on at least one session is the score of that result,
\* so it still counts the conflicts the returned result carries.
C38_OptimizeKeepsScore ==
  (pc = "optimized" /\ Len(sessions) > 0) =>
    /\ result.conflicts = currentTimetable.conflicts
    /\ result.score = currentTimetable.score

-----------------------------------------------------------------------------
(* Properties of the chatbot *)

\* The index of a day name: 0 = Sunday .. 6 = Saturday
DayIndex(name) == CHOOSE d \in AllDays : dayNames[d + 1] = name

\* C33: a session or constraint the chatbot creates for a named day is
\* stored with that day's index, 0 = Sunday .. 6 = Saturday.
C33_NamedDayStored ==
  \A i \in 1..Len(chatReplies) :
     (chatReplies[i].row # 0 /\ chatReplies[i].day # NoWord) =>
       chatRows[chatReplies[i].row].day_of_week = DayIndex(chatReplies[i].day)

-----------------------------------------------------------------------------
(* Properties of processTimetableEntries *)

\* The merge as stated: an entry is merged into the current one when it has
\* the type of the current one and starts when the entry before it ends.
RECURSIVE StatedMergeFrom(_, _, _, _)
StatedMergeFrom(group, i, current, pushed) ==
  IF i > Len(group) THEN Append(pushed, current)
  ELSE IF /\ group[i].type = current.type
          /\ group[i].start_time = group[i - 1].end_time
       THEN StatedMergeFrom(group, i + 1,
                            [current EXCEPT !.end_time = group[i].end_time], pushed)
       ELSE StatedMergeFrom(group, i + 1, group[i], Append(pushed, current))

StatedProcess(entries) ==
  LET keys == GroupKeys(entries)
      group(k) == SortByStart(SelectSeq(entries, LAMBDA e : GroupKey(e) = keys[k]))
  IN Flatten([k \in 1..Len(keys) |-> StatedMergeFrom(group(k), 2, group(k)[1], <<>>)])

\* C34: within a group of one day and subject in order of start_time, an
\* entry is merged into the current one (whose end_time becomes the entry's)
\* exactly when it has the same type and starts when the entry before it
\* ends; every other entry is output unchanged.
C34_MergesConsecutive ==
  (enhance.pc = "done" /\ enhance.status = 200) =>
    enhance.data = StatedProcess(enhance.entries)

-----------------------------------------------------------------------------
(* Properties of CacheManager *)

\* C16 (the claim as stated): a value that set stored with a TTL is not
\* returned by get at a time after its expiry, whatever calls of set, get,
\* invalidate and cleanup came before, on this key or on others.
C16_NoValueAfterExpiry ==
  (/\ lastGet # NoResp
   /\ lastGet.value # NoValue
   /\ stored[lastGet.value] # NoExpiry) =>
    lastGet.at <= stored[lastGet.value]

-----------------------------------------------------------------------------
(* Properties of the timetable-entry function *)

\* Two rows of one day whose [start_time, end_time) share a minute
EntriesOverlap(r1, r2) ==
  /\ r1.id # r2.id
  /\ r1.day = r2.day
  /\ ClockMinutes(r1.start_time) < ClockMinutes(r2.end_time)
  /\ ClockMinutes(r2.start_time) < ClockMinutes(r1.end_time)

\* C17 (the claim as stated): after any POST, PUT and DELETE requests no two
\* stored entries of one day overlap; a request answered 409 has stored
\* nothing.
C17_NoStoredOverlap ==
  /\ \A r1, r2 \in timetable : ~EntriesOverlap(r1, r2)
  /\ (entryMut.pc = "respond" /\ entryMut.status = 409) => timetable = entryMut.before

\* C18 (the claim as stated): a GET that starts after a POST, PUT or DELETE
\* was answered with success returns a list that was read from the table
\* after that write, also when another GET was in flight during the write.
C18_GetAfterWriteIsFresh ==
  (entryGet.pc = "idle" /\ entryGet.resp # NoResp) =>
    entryGet.resp.ver >= entryGet.startDone

UnknownIdAnswer ==
  (/\ entryMut.pc = "respond"
   /\ entryMut.method \in {"PUT", "DELETE"}
   /\ ~entryMut.known) =>
    /\ entryMut.status = 404
    /\ entryMut.code = "NOT_FOUND"
    /\ timetable = entryMut.before

UnknownIdRespondStep ==
  (/\ entryMut.pc = "respond"
   /\ entryMut'.pc = "idle"
   /\ entryMut.method \in {"PUT", "DELETE"}
   /\ ~entryMut.known) =>
    /\ entryCache' = entryCache
    /\ timetable' = timetable

\* C19 (the claim as stated): a PUT or DELETE whose id matches no stored
\* entry is answered 404 NOT_FOUND, whatever the body, and leaves the stored
\* entries and the cache as they were.
C19_UnknownIdIs404 == []UnknownIdAnswer /\ [][UnknownIdRespondStep]_vars

-----------------------------------------------------------------------------
(* Properties of prioritizeSessions *)

\* The three sort keys of a session: priority, type rank, minus the duration
SortKey(session, crs) ==
  <<crs[session.course_id],
    CASE session.type = "lab" -> 1
      [] session.type = "tutorial" -> 2
      [] session.type = "lecture" -> 3
      [] session.type = "seminar" -> 4
      [] OTHER -> 5,
    0 - (Minutes(session.end_time) - Minutes(session.start_time))>>

KeyLess(k1, k2) ==
  \/ k1[1] < k2[1]
  \/ k1[1] = k2[1] /\ k1[2] < k2[2]
  \/ k1[1] = k2[1] /\ k1[2] = k2[2] /\ k1[3] < k2[3]

\* C20: prioritizeSessions returns a permutation of its input ordered by
\* course priority ascending, then type rank (lab 1, tutorial 2, lecture 3,
\* seminar 4, other 5) ascending, then duration descending; sessions that tie
\* on all three keep their input order.
C20_PrioritizeOrder ==
  pc = "sorted" =>
    /\ Len(sortedSessions) = Len(sessions)
    /\ \A i \in 1..Len(sessions) :
          \E j \in 1..Len(sortedSessions) : sortedSessions[j] = sessions[i]
    /\ \A i, j \in 1..Len(sortedSessions) :
          i < j =>
            \/ KeyLess(SortKey(sortedSessions[i], courses),
                       SortKey(sortedSessions[j], courses))
            \/ /\ SortKey(sortedSessions[i], courses) = SortKey(sortedSessions[j], courses)
               /\ sortedSessions[i].id < sortedSessions[j].id

\* C20 witness: a sorted list in which a later input session comes first
\* because it is longer than one of the same priority and type.
C20_Witness ==
  /\ pc = "sorted"
  /\ Len(sortedSessions) >= 2
  /\ \E i \in 1..(Len(sortedSessions) - 1) :
        /\ sortedSessions[i].id > sortedSessions[i + 1].id
        /\ sortedSessions[i].type = sortedSessions[i + 1].type
        /\ courses[sortedSessions[i].course_id] = courses[sortedSessions[i + 1].course_id]

-----------------------------------------------------------------------------
(* Properties of the server *)

\* C5 (the claim as stated): a GET /api/timetable/:userId that starts after a
\* create, update or delete of a course, session or constraint was answered
\* does not return a result that was cached before that write.
C5_NoResultCachedBeforeWrite ==
  (getReq.pc = "idle" /\ getReq.resp # NoResp /\ getReq.resp.fromCache) =>
    getReq.resp.setAt >= getReq.startDone

AllAnswered ==
  /\ getReq.pc = "idle"
  /\ regenReq.pc = "idle"
  /\ mutReq.pc = "idle"

FreshOrAbsent(entry) == entry = NoEntry \/ entry.value = dbVer

\* C6 (the claim as stated): after one GET that missed the cache, generated
\* and set the cache, one regenerate and one session
\* or constraint write with its invalidation have all been answered, in any
\* interleaving, the entry timetable_<userId> is absent or was generated from
\* the rows as they are after the write.
C6_CacheFreshWhenQuiet ==
  (/\ AllAnswered
   /\ getReq.calls = 1
   /\ getReq.resp # NoResp
   /\ ~getReq.resp.fromCache
   /\ regenReq.calls = 1
   /\ mutReq.calls = 1
   /\ mutReq.route \in TimetableRoutes \cup PatternRoutes) =>
    /\ FreshOrAbsent(MemGet(memoryCache, TimetableKey))
    /\ FreshOrAbsent(dbCache[TimetableKey])

-----------------------------------------------------------------------------
(* C39: cache.get against a resolved cache.invalidate.                       *)

\* cache.invalidate(timetable_1) of the last route has resolved and no
\* cache.set of that key was issued since: the route is answered, the
\* regenerate route is not running, and the row is still absent (a set
\* issued since would have written it, and only an invalidate deletes it).
InvalidateResolved ==
  /\ mutReq.pc = "idle"
  /\ mutReq.calls > 0
  /\ mutReq.route \in TimetableRoutes
  /\ regenReq.pc = "idle"
  /\ dbCache[TimetableKey] = NoEntry

\* A cache.get that looked into memory between the two removals continues
\* after db.getCache, the invalidate having resolved: it returns null (the handler goes
\* on to generate) and puts nothing into memory.
InvalidatedGetStep ==
  (/\ InvalidateResolved
   /\ getReq.during = TimetableKey
   /\ getReq.pc = "get_db_cont"
   /\ getReq'.pc # "get_db_cont") =>
    /\ getReq'.pc = "gen_read"
    /\ memoryCache' = memoryCache

\* C39 (the claim as stated): after cache.invalidate(key) has resolved and
\* before the next cache.set(key, ...) is issued, a cache.get(key) returns
\* null and neither layer holds the key, also when that get ran between the
\* invalidate's removal from memory and its removal from the database.
C39_NullAfterInvalidate == [][InvalidatedGetStep]_vars

====
